---- MODULE Spec2Model ----
(***************************************************************************)
(* Model of the session transport engine of crates/session/src/mailbox.rs: *)
(* the Mailbox actor (its message queue and its handlers), the futures it  *)
(* spawns in its own context (socket bind, plain send, the send_ack retry  *)
(* cycle), the independent receive loop start_udp_read, and the callers    *)
(* and the peer as the environment.                                        *)
(*                                                                         *)
(* Handlers run to completion, so each is one action.  A future is one     *)
(* action per stretch of code between two of its await points.             *)
(*                                                                         *)
(* The lifecycle state with its notification (Actor::started, set_state)   *)
(* and the UI relay (Handler<UiMessage>) share no state with the session   *)
(* engine and have specifications of their own.                            *)
(*                                                                         *)
(* Time is discrete: one Tick is one second.  Every running sleep counts   *)
(* down the seconds it has left, and every send future counts the seconds  *)
(* since its last transmission, up to ACK_TIMEOUT.                         *)
(* The keepalive handlers read a clock of their own (Clock), which only    *)
(* the keepalive specification moves.                                      *)
(*                                                                         *)
(* The body codecs of crates/messages (LayerData, ChatFromSimulator) are   *)
(* operators on byte sequences, applied by a specification of their own.   *)
(***************************************************************************)
EXTENDS Integers, Sequences, FiniteSets, TLC

\* ---------------------------------------------------------------- bounds
\* sequence numbers the counter may hand out (guards cap the u32 counter)
MaxSeq == 2
\* Session requests issued by callers (one bind future / receive loop each)
MaxSessions == 2
\* datagrams the receive loops read in total
MaxReads == 1
\* messages callers may have waiting in the Mailbox queue
MaxInbox == 1
\* external tasks awaiting the lifecycle notification
MaxWaiters == 4
\* chunks of the longest payload relayed
MaxChunks == 4
\* Handler<UiMessage> calls
MaxRelays == 2
\* longest name and message of a ChatFromSimulator
MaxText == 2
\* keepalive replies the receive loop reads
MaxPongs == 2
\* readings of the clock
MaxTime == 2
\* reliable event packets the receive loop reads
MaxDups == 2
\* DownloadAgentAsset requests issued by callers
MaxDownloads == 3
\* the largest outfit_size of the agent
MaxOutfit == 2

\* ------------------------------------------------------ program constants
ACK_ATTEMPTS == 3
\* in seconds
ACK_TIMEOUT == 1
\* ping_number is a u8
U8Mod == 256
\* sequence_number, total_packet_number, packet_number and sent_packet_count
\* are u16
U16Mod == 65536
\* std::mem::size_of::<u16>()
U16Len == 2
\* Handler<UiMessage>: max_message_size, overhead
max_message_size == 1024
overhead == 2
\* bincode::serialize writes the variant of a unit enum as a u32
EnumTagLen == 4
\* and the length of a Vec<u8> as a u64 before its bytes
VecLenLen == 8
\* a Uuid is 16 bytes
UuidLen == 16
\* UiEventTypes::MeshUpdate.to_string().len()
MeshUpdateNameLen == 10
\* a Vec3 is three f32 of 4 bytes each
Vec3Len == 12

SeqIds == 0..(MaxSeq - 1)
ReqIds == 1..MaxSessions
DlIds == 1..MaxDownloads
WaiterIds == 1..MaxWaiters
\* sequence numbers of inbound packets (the peer's own numbering)
InSeqs == {0, 1}
\* header.sequence_number a caller may have written into a Packet before
\* submitting it (the constructors write 0)
HeldSeqs == {1, 2}
\* ids a peer may acknowledge: every id the counter can hand out and one it
\* never hands out
AckIds == 0..MaxSeq
\* a PacketAck lists one id, or two (the same id twice included); the order
\* of two ids makes no difference to what the loop does with them
AckLists ==
    {<<a>> : a \in AckIds}
    \cup {p \in AckIds \X AckIds : p[1] <= p[2]}

VARIABLES
    alive,                  \* the Mailbox actor is running (FALSE after a panic)
    inbox,                  \* the actor's message queue, FIFO
    session,                \* Mailbox.session: Option<Session> and its socket
    binds,                  \* the bind future spawned by each Session request
    loops,                  \* the receive loop spawned by each successful bind
    packet_sequence_number, \* Mailbox.packet_sequence_number
    ack_queue,              \* keys of Mailbox.ack_queue (each maps to the sender
                            \* of the current one-shot channel of that send_ack)
    tasks,                  \* the send future spawned for each sequence number
    wire,                   \* datagrams handed to the UDP socket so far
    assigned,               \* sequence numbers in the order they were assigned
    sessIssued,             \* Session requests issued so far
    pktIssued,              \* Packet messages put into the queue so far
    reads,                  \* datagrams read so far
    relSeqs,                \* sequence numbers of the reliable packets the
                            \* loops decoded, in the order they were decoded
    sessReply,              \* what the caller of each Session request got back
    sendReply,              \* what the caller of each Packet request got back
    errlog,                 \* sequence numbers whose send_ack error was logged
    ping_number,            \* Mailbox.ping_info.ping_number
    badReads,               \* datagrams read that failed to decode
    reest,                  \* a Session request was handled since a receive
                            \* loop last broke on a read failure
    now,                    \* what time::Instant::now() returns
    last_ping,              \* Mailbox.ping_info.last_ping
    ping_latency,           \* Mailbox.ping_info.ping_latency
    sent_at,                \* for each ping id, when a start-ping-check
                            \* carrying it was last emitted
    codec,                  \* a packet being built, encoded and decoded
    state,                  \* Mailbox.state: the shared ServerState
    permit,                 \* Mailbox.notify holds a stored permit
    startpc,                \* where Actor::started stands inside set_state
    waiters,                \* the external tasks awaiting notify.notified()
    server_to_ui_socket,    \* Mailbox.server_to_ui_socket is Some
    sent_packet_count,      \* Mailbox.sent_packet_count
    relayed,                \* what the last Handler<UiMessage> call was given
                            \* and the envelopes it handed to the UI socket
    agent_list,             \* the entry of one agent in session.agent_list
    downloads,              \* the future spawned for each DownloadAgentAsset
    renders                 \* Agent messages sent to the Mailbox so far

\* the session engine: the actor, its queue, its futures, the receive loops
engineVars == <<alive, inbox, session, binds, loops, packet_sequence_number,
                ack_queue, tasks, wire, assigned, sessIssued, pktIssued,
                reads, relSeqs, sessReply, sendReply, errlog, ping_number,
                badReads, reest, now, last_ping, ping_latency, sent_at,
                codec>>

\* the keepalive timestamps
pingVars == <<now, last_ping, ping_latency, sent_at>>

\* the lifecycle state and its notification
lifeVars == <<state, permit, startpc, waiters>>

\* the UI relay
relayVars == <<server_to_ui_socket, sent_packet_count, relayed>>

\* the agent's outfit and its downloads
agentVars == <<agent_list, downloads, renders>>

vars == <<engineVars, lifeVars, relayVars, agentVars>>

Range(f) == {f[k] : k \in DOMAIN f}

\* ------------------------------------------------------------- messages
NoIds == <<>>

SessionMsg(i) ==
    [type |-> "Session", req |-> i, reliable |-> FALSE, body |-> "none",
     ids |-> NoIds, ping |-> <<>>, from |-> 0, seq |-> 0]

PingMsg ==
    [type |-> "Ping", req |-> 0, reliable |-> FALSE, body |-> "none",
     ids |-> NoIds, ping |-> <<>>, from |-> 0, seq |-> 0]

\* a Packet message: header.reliable, the kind of body, the ids of a PacketAck
\* body, <<ping_id, oldest_unacked>> of a StartPingCheck body, the receive
\* loop that awaits its handling (0: nobody does), and header.sequence_number
\* as the constructors leave it (0)
PacketMsg(rel, body, ids, ping, from) ==
    [type |-> "Packet", req |-> 0, reliable |-> rel, body |-> body,
     ids |-> ids, ping |-> ping, from |-> from, seq |-> 0]

\* Packet::new_packet_ack(PacketAck { packet_ids })
new_packet_ack(ids, l) == PacketMsg(FALSE, "PacketAck", ids, <<>>, l)

\* Packet::new_start_ping_check(StartPingCheck { ping_id, oldest_unacked })
new_start_ping_check(id, oldest) ==
    PacketMsg(FALSE, "StartPingCheck", NoIds, <<id, oldest>>, 0)

\* a UiMessage in the Mailbox queue: UiMessage::new(ui_event, to_bytes) sent
\* by receive loop l for a body of kind ev
UiMsg(ev, tl, len, l) ==
    [type |-> "UiMessage", req |-> 0, reliable |-> FALSE, body |-> ev,
     ids |-> NoIds, ping |-> <<>>, from |-> l, seq |-> 0,
     type_len |-> tl, len |-> len]

\* ---------------------------------------------------------------- locks
\* the shared values behind a Mutex
Locks == {"packet_sequence_number", "ack_queue", "state"}

\* lock().unwrap() bound to a guard, and the end of that guard's scope
Lock(m) == <<"lock", m>>
Unlock(m) == <<"unlock", m>>

\* the guards a future holds after running ops when it held the guards in
\* held before
RECURSIVE HeldAfter(_, _)
HeldAfter(held, ops) ==
    IF ops = <<>> THEN held
    ELSE HeldAfter(IF Head(ops)[1] = "lock"
                     THEN held \cup {Head(ops)[2]}
                     ELSE held \ {Head(ops)[2]},
                   Tail(ops))

\* the guard of the queue living to the end of the loop body
RegisterLocks_held == <<Lock("ack_queue")>>

\* send_ack: the block around queue.insert
RegisterLocks == <<Lock("ack_queue"), Unlock("ack_queue")>>

\* send_ack: the if around queue.remove in the timeout branch
TimeoutLocks(last) ==
    IF last THEN <<Lock("ack_queue"), Unlock("ack_queue")>> ELSE <<>>

\* start_udp_read: the PacketAck arm takes the queue's guard for the length
\* of the arm; no other arm takes a lock
MatchLocks(d) ==
    IF d.body = "PacketAck"
      THEN <<Lock("ack_queue"), Unlock("ack_queue")>> ELSE <<>>

\* ------------------------------------------------- futures and the loop
NoTask ==
    [kind |-> "none", pc |-> "none", attempts |-> 0,
     rx |-> "none",            \* receiver of the current one-shot channel
     left |-> 0,               \* seconds left of the current sleep
     sinceTx |-> 0,            \* seconds since the last transmission
     txCount |-> 0,            \* transmissions so far
     spaced |-> TRUE,          \* every retransmission came >= ACK_TIMEOUT
                               \* after the transmission before it
     result |-> "none",
     seq |-> 0,                \* header.sequence_number of the packet it holds
     held |-> 0,               \* ... and what it was when submitted
     body |-> "none", ids |-> NoIds,
     ping |-> <<>>,            \* <<ping_id, oldest_unacked>> of its body
     acked |-> FALSE,          \* an acknowledgment listing it was processed
                               \* during its cycle
     ackedFirstWait |-> FALSE, \* ... while its first attempt was waiting
     ackedLate |-> 0,          \* acknowledgments listing it that were
                               \* processed after it had failed
     guards |-> {},            \* the locks it holds where it is suspended
     sendErrs |-> 0]           \* attempts whose send_to returned Err

\* an inbound packet as the receive loop sees it after Packet::from_bytes
NoDatagram == [reliable |-> FALSE, seq |-> 0, body |-> "none", ids |-> NoIds]

\* what recv_from and Packet::from_bytes can yield; the sequence number of a
\* packet that is not reliable is never read
Datagrams ==
    [reliable : {TRUE}, seq : InSeqs, body : {"PacketAck"}, ids : AckLists]
    \cup [reliable : {TRUE}, seq : InSeqs, body : {"Other"}, ids : {NoIds}]
    \cup [reliable : {FALSE}, seq : {0}, body : {"PacketAck"}, ids : AckLists]
    \cup [reliable : {FALSE}, seq : {0}, body : {"Other"}, ids : {NoIds}]

NoLoop == [pc |-> "none", cur |-> NoDatagram, guards |-> {}]

RunningLoop == [pc |-> "recv", cur |-> NoDatagram, guards |-> {}]

NoSession == [present |-> FALSE, socket |-> 0]

\* the notification goes out before the state is written
SetStateSteps_swapped == <<"notify", "write">>

\* set_state: the state is written under its lock, then notify_one is called
SetStateSteps == <<"write", "notify">>

\* an external task that has not called notified() yet
NoWaiter == [pc |-> "idle", early |-> FALSE, saw |-> "none"]

\* no Handler<UiMessage> call yet
NoCall ==
    [n |-> 0,                  \* calls handled so far
     configured |-> FALSE,     \* the last call found a UI socket
     event |-> "none",         \* the kind of body a receive loop forwarded
                               \* in it ("none": it came from elsewhere)
     len |-> 0,                \* msg.message.len()
     type_len |-> 0,           \* msg.message_type.to_string().len()
     base |-> 0,               \* msg.sequence_number
     count |-> 0,              \* sent_packet_count when the call began
     fails |-> {},             \* chunk indexes whose send_to returned Err
     out |-> <<>>]             \* the envelopes handed to send_to, in order

\* no packet was built
NoCodec ==
    [pc |-> "new",
     header |-> <<>>,          \* the Header the constructor wrote
     body |-> <<>>,            \* the kind of body and its value
     bytes |-> <<>>,           \* the byte slice encoded or received
     cut |-> FALSE,            \* the slice was truncated
     short |-> FALSE,          \* ... inside the fields of fixed size
     result |-> <<>>]          \* what from_bytes returned

\* the state common to a Mailbox with nothing sent yet
Fresh ==
    /\ alive = TRUE
    /\ inbox = <<>>
    /\ packet_sequence_number = 0
    /\ ack_queue = {}
    /\ tasks = [n \in SeqIds |-> NoTask]
    /\ wire = {}
    /\ assigned = <<>>
    /\ pktIssued = 0
    /\ reads = 0
    /\ relSeqs = <<>>
    /\ sendReply = [n \in SeqIds |-> "none"]
    /\ errlog = {}
    /\ badReads = 0
    /\ reest = FALSE
    /\ now = 0
    /\ last_ping = 0
    /\ ping_latency = 0
    /\ codec = NoCodec

\* no ping was handled
NoPing ==
    /\ ping_number = 0
    /\ sent_at = <<>>

\* the actor has started and nobody waits for it
Started ==
    /\ state = "Running"
    /\ permit = TRUE
    /\ startpc = Len(SetStateSteps) + 1
    /\ waiters = [w \in WaiterIds |-> NoWaiter]

\* no UI socket was configured and nothing was relayed
NoRelay ==
    /\ server_to_ui_socket = FALSE
    /\ sent_packet_count = 0
    /\ relayed = NoCall

\* no download was requested and the agent is not in the list
NoDownload == [pc |-> "none", item_type |-> "none"]

NoAvatar == [present |-> FALSE, outfit_size |-> 0, outfit_items |-> <<>>]

NoAgent ==
    /\ agent_list = NoAvatar
    /\ downloads = [k \in DlIds |-> NoDownload]
    /\ renders = 0

\* no Session request was made
Unsessioned ==
    /\ session = NoSession
    /\ binds = [i \in ReqIds |-> "none"]
    /\ loops = [i \in ReqIds |-> NoLoop]
    /\ sessIssued = 0
    /\ sessReply = [i \in ReqIds |-> "none"]

Init ==
    /\ Fresh
    /\ NoAgent
    /\ NoPing
    /\ Started
    /\ NoRelay
    /\ Unsessioned

\* ------------------------------------------------------ the environment
\* a caller sends a Session message to the Mailbox
SendSession ==
    /\ alive
    /\ sessIssued < MaxSessions
    /\ Len(inbox) < MaxInbox
    /\ sessIssued' = sessIssued + 1
    /\ inbox' = Append(inbox, SessionMsg(sessIssued + 1))
    /\ UNCHANGED <<agentVars, codec, lifeVars, relayVars, pingVars, badReads, reest,
                   alive, session, binds, loops, packet_sequence_number,
                   ack_queue, tasks, wire, assigned, pktIssued, reads,
                   sessReply, sendReply, errlog, ping_number, relSeqs>>

\* a caller sends a Packet message (reliable or not) to the Mailbox
SendPacket ==
    /\ alive
    /\ pktIssued < MaxSeq
    /\ Len(inbox) < MaxInbox
    /\ \E rel \in BOOLEAN :
          inbox' = Append(inbox, PacketMsg(rel, "Other", NoIds, <<>>, 0))
    /\ pktIssued' = pktIssued + 1
    /\ UNCHANGED <<agentVars, codec, lifeVars, relayVars, pingVars, badReads, reest,
                   alive, session, binds, loops, packet_sequence_number,
                   ack_queue, tasks, wire, assigned, sessIssued, reads,
                   sessReply, sendReply, errlog, ping_number, relSeqs>>

\* a caller sends a Packet whose header already holds a sequence number
SendHeldPacket ==
    /\ alive
    /\ pktIssued < MaxSeq
    /\ Len(inbox) < MaxInbox
    /\ \E rel \in BOOLEAN, held \in HeldSeqs :
          inbox' = Append(inbox,
                          [PacketMsg(rel, "Other", NoIds, <<>>, 0)
                              EXCEPT !.seq = held])
    /\ pktIssued' = pktIssued + 1
    /\ UNCHANGED <<agentVars, codec, lifeVars, relayVars, pingVars, badReads, reest,
                   alive, session, binds, loops, packet_sequence_number,
                   ack_queue, tasks, wire, assigned, sessIssued, reads,
                   sessReply, sendReply, errlog, ping_number, relSeqs>>

\* a caller sends a Ping message to the Mailbox
SendPing ==
    /\ alive
    /\ pktIssued < MaxSeq
    /\ Len(inbox) < MaxInbox
    /\ inbox' = Append(inbox, PingMsg)
    /\ pktIssued' = pktIssued + 1
    /\ UNCHANGED <<agentVars, codec, lifeVars, relayVars, pingVars, badReads, reest,
                   alive, session, binds, loops, packet_sequence_number,
                   ack_queue, tasks, wire, assigned, sessIssued, reads,
                   sessReply, sendReply, errlog, ping_number, relSeqs>>

\* ---------------------------------------------------------------- panic
\* a panic inside the actor's context future unwinds the actor: every future
\* spawned with ctx.spawn is dropped where it stands, and so is the queue
DropTasks(ts) ==
    [n \in SeqIds |->
        IF ts[n].pc \in {"none", "done"} THEN ts[n]
        ELSE [ts[n] EXCEPT !.pc = "dropped", !.rx = "none"]]

DropBinds(bs) ==
    [i \in ReqIds |-> IF bs[i] = "pending" THEN "dropped" ELSE bs[i]]

\* --------------------------------------------------- Handler<Session>
\* msg.socket = session.socket.clone() when a session exists, else the
\* socket of the message (None)
InheritSocket(sess) == IF sess.present THEN sess.socket ELSE 0

\* session.socket.is_none()
NeedsBind(sock) == sock = 0

HandleSession ==
    /\ alive
    /\ inbox # <<>>
    /\ Head(inbox).type = "Session"
    /\ LET i == Head(inbox).req
           sock == InheritSocket(session)
       IN /\ session' = [present |-> TRUE, socket |-> sock]
          /\ binds' = IF NeedsBind(sock)
                        THEN [binds EXCEPT ![i] = "pending"]
                        ELSE binds
          /\ sessReply' = [sessReply EXCEPT ![i] = "unit"]
    /\ reest' = (reest \/ \E l \in ReqIds : loops[l].pc = "stopped")
    /\ inbox' = Tail(inbox)
    /\ UNCHANGED <<agentVars, codec, lifeVars, relayVars, pingVars, badReads,
                   alive, loops, packet_sequence_number, ack_queue, tasks,
                   wire, assigned, sessIssued, pktIssued, reads, sendReply,
                   errlog, ping_number, relSeqs>>

\* the bind future of request i resolves Ok: the receive loop is spawned on
\* the new socket and the map closure stores the socket into the session
BindOk(i) ==
    /\ alive
    /\ binds[i] = "pending"
    /\ binds' = [binds EXCEPT ![i] = "ok"]
    /\ loops' = [loops EXCEPT ![i] = RunningLoop]
    /\ session' = IF session.present
                    THEN [session EXCEPT !.socket = i]
                    ELSE session
    /\ UNCHANGED <<agentVars, codec, lifeVars, relayVars, pingVars, badReads, reest,
                   alive, inbox, packet_sequence_number, ack_queue, tasks,
                   wire, assigned, sessIssued, pktIssued, reads, sessReply,
                   sendReply, errlog, ping_number, relSeqs>>

\* the bind future of request i resolves Err: the map closure panics
BindErr(i) ==
    /\ alive
    /\ binds[i] = "pending"
    /\ alive' = FALSE
    /\ inbox' = <<>>
    /\ binds' = DropBinds([binds EXCEPT ![i] = "err"])
    /\ tasks' = DropTasks(tasks)
    /\ UNCHANGED <<agentVars, codec, lifeVars, relayVars, pingVars, badReads, reest,
                   session, loops, packet_sequence_number, ack_queue, wire,
                   assigned, sessIssued, pktIssued, reads, sessReply,
                   sendReply, errlog, ping_number, relSeqs>>

\* ------------------------------------------------------ Handler<Ping>
\* the ids emitted so far and id, emitted at time t
Emit(sa, id, t) ==
    [i \in DOMAIN sa \cup {id} |-> IF i = id THEN t ELSE sa[i]]

\* Handler<Ping>: the whole handler.  The increment of the u8 ping number at
\* its maximum wraps to 0 or panics, as the build has it.
HandlePing ==
    /\ alive
    /\ inbox # <<>>
    /\ Head(inbox).type = "Ping"
    /\ IF ping_number + 1 < U8Mod
         THEN /\ ping_number' = ping_number + 1
              /\ UNCHANGED <<alive, binds, tasks>>
         ELSE \/ /\ ping_number' = 0
                 /\ UNCHANGED <<alive, binds, tasks>>
              \/ /\ alive' = FALSE
                 /\ binds' = DropBinds(binds)
                 /\ tasks' = DropTasks(tasks)
                 /\ UNCHANGED ping_number
    /\ IF alive'
         THEN /\ inbox' = Append(Tail(inbox),
                                 new_start_ping_check(
                                     ping_number, packet_sequence_number))
              /\ last_ping' = now
              /\ sent_at' = Emit(sent_at, ping_number, now)
         ELSE /\ inbox' = <<>>
              /\ UNCHANGED <<last_ping, sent_at>>
    /\ UNCHANGED <<agentVars, codec, lifeVars, relayVars, badReads, reest, now, ping_latency,
                   session, loops, packet_sequence_number, ack_queue, wire,
                   assigned, sessIssued, pktIssued, reads, sessReply,
                   sendReply, errlog, relSeqs>>

\* ------------------------------------------------------ Handler<Pong>
\* a Pong in the Mailbox queue, sent by receive loop l for a
\* CompletePingCheck that answers ping p
PongMsg(p, l) ==
    [type |-> "Pong", req |-> 0, reliable |-> FALSE, body |-> "none",
     ids |-> NoIds, ping |-> <<p>>, from |-> l, seq |-> 0]

\* Handler<Pong>: the whole handler
HandlePong ==
    /\ alive
    /\ inbox # <<>>
    /\ Head(inbox).type = "Pong"
    /\ inbox' = Append(Tail(inbox),
                       new_start_ping_check(ping_number,
                                            packet_sequence_number))
    /\ ping_latency' = now - last_ping
    /\ sent_at' = Emit(sent_at, ping_number, now)
    /\ UNCHANGED <<agentVars, codec, lifeVars, relayVars, badReads, reest, now, last_ping,
                   alive, session, binds, loops, packet_sequence_number,
                   ack_queue, tasks, wire, assigned, sessIssued, pktIssued,
                   reads, sessReply, sendReply, errlog, ping_number,
                   relSeqs>>

\* ---------------------------------------------------- Handler<Packet>
\* the increment left out
NextSeq_stuck(c) == c

\* *sequence_number += 1
NextSeq(c) == c + 1

\* the future spawned for the packet: send_ack when reliable, a single
\* send_to otherwise
NewTask(m) ==
    [NoTask EXCEPT !.kind = IF m.reliable THEN "reliable" ELSE "plain",
                   !.pc = "start", !.seq = m.seq, !.body = m.body,
                   !.ids = m.ids, !.ping = m.ping]

\* the number the packet held is kept
Stamp_kept(m, c) == m

\* msg.header.sequence_number = *sequence_number
Stamp(m, c) == [m EXCEPT !.seq = c]

\* the future spawned for message m after it was stamped with c
Spawned(m, c) == [NewTask(Stamp(m, c)) EXCEPT !.held = m.seq]

\* the test for a session left out
HasSession_always(sess) == TRUE

\* if let Some(ref session) = self.session
HasSession(sess) == sess.present

HandlePacket ==
    /\ alive
    /\ inbox # <<>>
    /\ Head(inbox).type = "Packet"
    /\ packet_sequence_number < MaxSeq
    /\ LET m == Head(inbox)
           n == packet_sequence_number
       IN IF ~HasSession(session)
            THEN \* no session: the message is dropped
                 /\ inbox' = Tail(inbox)
                 /\ UNCHANGED <<alive, binds, packet_sequence_number, tasks,
                                assigned, sendReply>>
            ELSE IF session.socket = 0
              THEN \* session.socket.as_ref().unwrap() on None
                   /\ alive' = FALSE
                   /\ inbox' = <<>>
                   /\ binds' = DropBinds(binds)
                   /\ tasks' = DropTasks(tasks)
                   /\ UNCHANGED <<packet_sequence_number, assigned,
                                  sendReply>>
              ELSE /\ inbox' = Tail(inbox)
                   /\ tasks' = [tasks EXCEPT ![n] = Spawned(m, n)]
                   /\ packet_sequence_number' = NextSeq(n)
                   /\ assigned' = Append(assigned, n)
                   /\ sendReply' = [sendReply EXCEPT ![n] = "unit"]
                   /\ UNCHANGED <<alive, binds>>
    /\ UNCHANGED <<agentVars, codec, lifeVars, relayVars, pingVars, badReads, reest,
                   session, loops, ack_queue, wire, sessIssued, pktIssued,
                   reads, sessReply, errlog, ping_number, relSeqs>>

\* ------------------------------------------------------------ send_ack
\* the resent flag never set
Datagram_unmarked(n, t) ==
    [slot |-> n, seq |-> t.seq, reliable |-> t.kind = "reliable",
     resent |-> FALSE, body |-> t.body, ids |-> t.ids, ping |-> t.ping]

\* the datagram the send future of request n hands to the socket: the bytes of
\* the packet it holds, with header.resent set when attempts > 0
Datagram(n, t) ==
    [slot |-> n, seq |-> t.seq, reliable |-> t.kind = "reliable",
     resent |-> t.attempts > 0, body |-> t.body, ids |-> t.ids,
     ping |-> t.ping]

\* the comparison off by one
Exhausted_late(a) == a > ACK_ATTEMPTS

\* the entry left in the queue after the final attempt
Unregister_kept(q, n) == q

\* queue.remove(&packet_id) after the final attempt
Unregister(q, n) == q \ {n}

\* attempts >= ACK_ATTEMPTS after the increment in the timeout branch
Exhausted(a) == a >= ACK_ATTEMPTS

\* tokio::time::sleep(ACK_TIMEOUT)
Sleep == ACK_TIMEOUT

\* top of the loop of send_ack: a fresh one-shot channel, then
\* queue.insert(packet_id, tx), then send_to is awaited
Register(t) ==
    [t EXCEPT !.pc = "sending", !.rx = "pending",
              !.guards = HeldAfter(@, RegisterLocks)]

\* send_to has completed and select! is entered
Transmitted(t) ==
    [t EXCEPT !.pc = "select",
              !.txCount = @ + 1,
              !.spaced = @ /\ (t.txCount = 0 \/ t.sinceTx >= ACK_TIMEOUT),
              !.sinceTx = 0,
              !.left = Sleep]

\* first poll of send_ack
SendAckStart(n) ==
    /\ alive
    /\ tasks[n].kind = "reliable"
    /\ tasks[n].pc = "start"
    /\ ack_queue' = ack_queue \cup {n}
    /\ tasks' = [tasks EXCEPT ![n] = Register(@)]
    /\ UNCHANGED <<agentVars, codec, lifeVars, relayVars, pingVars, badReads, reest,
                   alive, inbox, session, binds, loops,
                   packet_sequence_number, wire, assigned, sessIssued,
                   pktIssued, reads, sessReply, sendReply, errlog,
                   ping_number, relSeqs>>

\* select! is polled for the first time in the poll in which send_to
\* completed: the sleep it has just created is not over, so a signal that
\* was fulfilled while send_to was awaited ends the cycle there with Ok(())
Selected(t) ==
    IF t.rx = "ready"
      THEN [t EXCEPT !.pc = "done", !.rx = "none", !.result = "Ok"]
      ELSE t

\* send_to completes: the datagram is out, and select! starts the race of
\* rx against sleep(ACK_TIMEOUT)
SendAckTransmit(n) ==
    /\ alive
    /\ tasks[n].pc = "sending"
    /\ wire' = wire \cup {Datagram(n, tasks[n])}
    /\ tasks' = [tasks EXCEPT ![n] = Selected(Transmitted(@))]
    /\ UNCHANGED <<agentVars, codec, lifeVars, relayVars, pingVars, badReads, reest,
                   alive, inbox, session, binds, loops,
                   packet_sequence_number, ack_queue, assigned, sessIssued,
                   pktIssued, reads, sessReply, sendReply, errlog,
                   ping_number, relSeqs>>

\* a transmit error ends the cycle with the error
SendFailed_abort(t) ==
    [t EXCEPT !.pc = "done", !.rx = "none", !.result = "Err",
              !.sendErrs = @ + 1]

\* send_to returned Err: the error is logged and select! is entered as after
\* a transmission
SendFailed(t) ==
    [t EXCEPT !.pc = "select", !.sendErrs = @ + 1, !.left = Sleep]

\* send_to completes with an error: nothing is out
SendAckTransmitErr(n) ==
    /\ alive
    /\ tasks[n].pc = "sending"
    /\ tasks' = [tasks EXCEPT ![n] = Selected(SendFailed(@))]
    /\ UNCHANGED <<agentVars, codec, lifeVars, relayVars, pingVars, badReads, reest,
                   alive, inbox, session, binds, loops,
                   packet_sequence_number, ack_queue, wire, assigned,
                   sessIssued, pktIssued, reads, sessReply, sendReply,
                   errlog, ping_number, relSeqs>>

\* select! takes the rx branch: received_ack = true, the loop ends, Ok(())
SendAckReceived(n) ==
    /\ alive
    /\ tasks[n].pc = "select"
    /\ tasks[n].rx = "ready"
    /\ tasks' = [tasks EXCEPT ![n].pc = "done", ![n].rx = "none",
                              ![n].result = "Ok"]
    /\ UNCHANGED <<agentVars, codec, lifeVars, relayVars, pingVars, badReads, reest,
                   alive, inbox, session, binds, loops,
                   packet_sequence_number, ack_queue, wire, assigned,
                   sessIssued, pktIssued, reads, sessReply, sendReply,
                   errlog, ping_number, relSeqs>>

\* select! takes the sleep branch (the branch polled first is picked at
\* random, so it can be taken when rx is ready too): attempts += 1; after the
\* last attempt the entry is removed and the Err is logged by the future
\* spawned in Handler<Packet>; otherwise the loop runs again up to send_to
SendAckTimeout(n) ==
    /\ alive
    /\ tasks[n].pc = "select"
    /\ tasks[n].left = 0
    /\ LET a == tasks[n].attempts + 1
       IN IF Exhausted(a)
            THEN /\ ack_queue' = Unregister(ack_queue, n)
                 /\ tasks' = [tasks EXCEPT
                                ![n].attempts = a,
                                ![n].pc = "done",
                                ![n].rx = "none",
                                ![n].result = "Err",
                                ![n].guards =
                                    HeldAfter(@, TimeoutLocks(TRUE))]
                 /\ errlog' = errlog \cup {n}
            ELSE /\ ack_queue' = ack_queue \cup {n}
                 /\ tasks' = [tasks EXCEPT
                                ![n] = Register(
                                    [@ EXCEPT
                                       !.attempts = a,
                                       !.guards = HeldAfter(
                                           @, TimeoutLocks(FALSE))])]
                 /\ UNCHANGED errlog
    /\ UNCHANGED <<agentVars, codec, lifeVars, relayVars, pingVars, badReads, reest,
                   alive, inbox, session, binds, loops,
                   packet_sequence_number, wire, assigned, sessIssued,
                   pktIssued, reads, sessReply, sendReply, ping_number,
                   relSeqs>>

\* the future of a non-reliable packet: one send_to
PlainSend(n) ==
    /\ alive
    /\ tasks[n].kind = "plain"
    /\ tasks[n].pc = "start"
    /\ wire' = wire \cup {Datagram(n, tasks[n])}
    /\ tasks' = [tasks EXCEPT ![n].pc = "done",
                              ![n].txCount = @ + 1,
                              ![n].result = "Sent"]
    /\ UNCHANGED <<agentVars, codec, lifeVars, relayVars, pingVars, badReads, reest,
                   alive, inbox, session, binds, loops,
                   packet_sequence_number, ack_queue, assigned, sessIssued,
                   pktIssued, reads, sessReply, sendReply, errlog,
                   ping_number, relSeqs>>

\* ------------------------------------------------------ start_udp_read
\* the acknowledgment listing the number a freshly built header holds
AckFor_stale(d, l) == new_packet_ack(<<0>>, l)

\* the acknowledgment the loop builds for a reliable packet d
AckFor(d, l) == new_packet_ack(<<d.seq>>, l)

\* ids listed by a PacketAck body; any other body lists none
AckedIds(d) == IF d.body = "PacketAck" THEN Range(d.ids) ELSE {}

\* the entry looked up but left in the queue
RemoveAcked_none(q, ids) == q

\* queue.remove(&id) for every listed id
RemoveAcked(q, ids) == q \ ids

\* an acknowledgment fulfils the signal of every entry of the queue
Fulfil_any(ts, q, ids) ==
    [n \in SeqIds |->
        IF ids # {} /\ n \in q /\ ts[n].rx = "pending"
          THEN [ts[n] EXCEPT !.rx = "ready"]
          ELSE ts[n]]

\* sender.send(()) for every listed id found in the queue: the receiver of
\* that channel, if it still exists, becomes ready
Fulfil(ts, q, ids) ==
    [n \in SeqIds |->
        IF n \in ids
          THEN [ts[n] EXCEPT
                  !.rx = IF n \in q /\ @ = "pending" THEN "ready" ELSE @,
                  !.acked = @ \/ ts[n].pc \in {"start", "sending", "select"},
                  !.ackedFirstWait =
                      @ \/ (n \in q /\ ts[n].pc = "select"
                                   /\ ts[n].attempts = 0),
                  !.ackedLate = IF ts[n].result = "Err" THEN @ + 1 ELSE @]
          ELSE ts[n]]

\* the match on packet.body
MatchBody(d) ==
    /\ ack_queue' = RemoveAcked(ack_queue, AckedIds(d))
    /\ tasks' = Fulfil(tasks, ack_queue, AckedIds(d))

\* recv_from returns a datagram that decodes to d.  A reliable d makes the
\* loop send an acknowledgment to the Mailbox and await the handler; with the
\* actor gone that send fails at once.  Otherwise the body is matched in the
\* same poll.
Decoded(l, d) ==
    /\ loops[l].pc = "recv"
    /\ reads' = reads + 1
    /\ relSeqs' = IF d.reliable THEN Append(relSeqs, d.seq) ELSE relSeqs
    /\ IF d.reliable /\ alive
         THEN /\ pktIssued < MaxSeq
              /\ inbox' = Append(inbox, AckFor(d, l))
              /\ pktIssued' = pktIssued + 1
              /\ loops' = [loops EXCEPT ![l] = [pc |-> "await_ack",
                                                cur |-> d,
                                                guards |-> {}]]
              /\ UNCHANGED <<ack_queue, tasks>>
         ELSE /\ MatchBody(d)
              /\ loops' = [loops EXCEPT
                              ![l].guards = HeldAfter(@, MatchLocks(d))]
              /\ UNCHANGED <<inbox, pktIssued>>
    /\ UNCHANGED <<agentVars, codec, lifeVars, relayVars, pingVars, badReads, reest,
                   alive, session, binds, packet_sequence_number, wire,
                   assigned, sessIssued, sessReply, sendReply, errlog,
                   ping_number>>

Recv(l, d) ==
    /\ reads < MaxReads
    /\ Decoded(l, d)

RecvDatagram(l) == \E d \in Datagrams : Recv(l, d)

\* the kinds of body whose message type is Event
EventKinds == {"ChatFromSimulator", "LayerData"}

\* MessageType::Event = packet.body.message_type()
IsEvent(d) == d.body \in EventKinds

\* a packet whose sequence number was decoded before is not forwarded again
Forwards_fresh(d, seen) ==
    IsEvent(d) /\ Cardinality({k \in DOMAIN seen : seen[k] = d.seq}) <= 1

\* the loop forwards packet d to the UI, seen being the sequence numbers of
\* the reliable packets decoded so far (d's own included): every event is
\* forwarded, whatever was decoded before it
Forwards(d, seen) == IsEvent(d)

\* the acknowledgment was handled by the Mailbox (or the actor is gone): the
\* loop goes on to match the body of the packet it holds, and when the
\* packet is an event it sends the UiMessage to the Mailbox and awaits the
\* handler (with the actor gone that send fails at once)
RecvAckSent(l) ==
    /\ loops[l].pc = "await_ack"
    /\ \/ ~alive
       \/ \A k \in DOMAIN inbox : inbox[k].from # l
    /\ MatchBody(loops[l].cur)
    /\ LET d == loops[l].cur
           g == HeldAfter(loops[l].guards, MatchLocks(d))
       IN IF Forwards(d, relSeqs) /\ alive
            THEN /\ inbox' = Append(inbox,
                                    UiMsg(d.body, d.type_len, d.len, l))
                 /\ loops' = [loops EXCEPT
                                 ![l] = [pc |-> "await_ui", cur |-> d,
                                         guards |-> g]]
            ELSE /\ loops' = [loops EXCEPT
                                 ![l] = [RunningLoop EXCEPT !.guards = g]]
                 /\ UNCHANGED inbox
    /\ UNCHANGED <<agentVars, codec, lifeVars, relayVars, pingVars, badReads, reest,
                   alive, session, binds, packet_sequence_number,
                   wire, assigned, sessIssued, pktIssued, reads, sessReply,
                   sendReply, errlog, ping_number, relSeqs>>

\* the loop breaks on a datagram that does not decode
OnDecodeErr_break(lp) == [lp EXCEPT !.pc = "stopped"]

\* Err(_) => continue: the loop goes back to recv_from
OnDecodeErr(lp) == lp

\* recv_from returns a datagram and Packet::from_bytes returns Err
RecvUndecodable(l) ==
    /\ loops[l].pc = "recv"
    /\ reads < MaxReads
    /\ reads' = reads + 1
    /\ badReads' = badReads + 1
    /\ loops' = [loops EXCEPT ![l] = OnDecodeErr(@)]
    /\ UNCHANGED <<agentVars, codec, lifeVars, relayVars, pingVars, reest, alive, inbox, session, binds,
                   packet_sequence_number, ack_queue, tasks, wire, assigned,
                   sessIssued, pktIssued, relSeqs, sessReply, sendReply,
                   errlog, ping_number>>

\* recv_from returns Err: the loop breaks
RecvFail(l) ==
    /\ loops[l].pc = "recv"
    /\ loops' = [loops EXCEPT ![l].pc = "stopped"]
    /\ reest' = FALSE
    /\ UNCHANGED <<agentVars, codec, lifeVars, relayVars, pingVars, badReads,
                   alive, inbox, session, binds, packet_sequence_number,
                   ack_queue, tasks, wire, assigned, sessIssued, pktIssued,
                   reads, sessReply, sendReply, errlog, ping_number, relSeqs>>

\* the ping ids of the start-ping-check packets handed to the socket
PingsOut == {d.ping[1] : d \in {x \in wire : x.body = "StartPingCheck"}}

\* recv_from returns a datagram that decodes to a CompletePingCheck, not
\* reliable, with which the peer answers a ping p it was sent: the loop sends
\* Pong to the Mailbox and awaits the handler; with the actor gone the send
\* fails at once and the loop goes on.
RecvPong(l) ==
    /\ loops[l].pc = "recv"
    /\ reads < MaxPongs
    /\ reads' = reads + 1
    /\ \E p \in PingsOut :
         IF alive
           THEN /\ inbox' = Append(inbox, PongMsg(p, l))
                /\ loops' = [loops EXCEPT ![l] =
                                [pc |-> "await_pong",
                                 cur |-> [NoDatagram EXCEPT
                                             !.body = "CompletePingCheck"],
                                 guards |-> {}]]
           ELSE UNCHANGED <<inbox, loops>>
    /\ UNCHANGED <<agentVars, codec, lifeVars, relayVars, pingVars, badReads, reest, alive,
                   session, binds, packet_sequence_number, ack_queue, tasks,
                   wire, assigned, sessIssued, pktIssued, relSeqs, sessReply,
                   sendReply, errlog, ping_number>>

\* the Pong was handled by the Mailbox (or the actor is gone): the loop goes
\* back to recv_from
RecvPongSent(l) ==
    /\ loops[l].pc = "await_pong"
    /\ \/ ~alive
       \/ \A k \in DOMAIN inbox : inbox[k].from # l
    /\ loops' = [loops EXCEPT ![l] = RunningLoop]
    /\ UNCHANGED <<agentVars, codec, lifeVars, relayVars, pingVars, badReads, reest, alive,
                   inbox, session, binds, packet_sequence_number, ack_queue,
                   tasks, wire, assigned, sessIssued, pktIssued, reads,
                   relSeqs, sessReply, sendReply, errlog, ping_number>>

\* ----------------------------------------------------------------- time
\* the clock read by the keepalive handlers moves on
Clock ==
    /\ now < MaxTime
    /\ now' = now + 1
    /\ UNCHANGED <<agentVars, codec, lifeVars, relayVars, last_ping, ping_latency, sent_at,
                   badReads, reest, alive, inbox, session, binds, loops,
                   packet_sequence_number, ack_queue, tasks, wire, assigned,
                   sessIssued, pktIssued, reads, relSeqs, sessReply,
                   sendReply, errlog, ping_number>>

\* one second passes
Elapse(t) ==
    [t EXCEPT !.left = IF t.pc = "select" /\ @ > 0 THEN @ - 1 ELSE @,
              !.sinceTx = IF t.pc \in {"sending", "select"} /\ @ < ACK_TIMEOUT
                            THEN @ + 1 ELSE @]

Tick ==
    /\ tasks' = [n \in SeqIds |-> Elapse(tasks[n])]
    /\ tasks' # tasks
    /\ UNCHANGED <<agentVars, codec, lifeVars, relayVars, pingVars, badReads, reest,
                   alive, inbox, session, binds, loops,
                   packet_sequence_number, ack_queue, wire, assigned,
                   sessIssued, pktIssued, reads, sessReply, sendReply,
                   errlog, ping_number, relSeqs>>

\* ------------------------------------------------------- message bodies
\* bytes are the numbers 0..255; a String holds valid UTF-8: a sequence of
\* bytes below 128 always is, and a byte from 128 on is not on its own
String_from_utf8_ok(bs) == \A i \in 1..Len(bs) : bs[i] < 128

\* the sequence s without its zero bytes
RECURSIVE NoZeros(_)
NoZeros(s) ==
    IF s = <<>> THEN <<>>
    ELSE IF Head(s) = 0 THEN NoZeros(Tail(s))
    ELSE <<Head(s)>> \o NoZeros(Tail(s))

\* s from its (p + 1)-th byte on: what a Cursor at position p has left to
\* read (nothing when p is at or past the end)
Rest(s, p) == IF p >= Len(s) THEN <<>> ELSE SubSeq(s, p + 1, Len(s))

\* the outcome of a from_bytes call: Ok(value), Err(_), or a panic
Ok(v) == [kind |-> "Ok", value |-> v]
Err == [kind |-> "Err", value |-> <<>>]
Panic == [kind |-> "Panic", value |-> <<>>]

SourceTypes == {"System", "Agent", "Object", "Unknown"}

SourceType_from_bytes(b) ==
    CASE b = 0 -> "System"
      [] b = 1 -> "Agent"
      [] b = 2 -> "Object"
      [] OTHER -> "Unknown"

SourceType_to_bytes(t) ==
    CASE t = "System" -> 0
      [] t = "Agent" -> 1
      [] t = "Object" -> 2
      [] t = "Unknown" -> 3

Audibles == {"Not", "Barely", "Fully", "Unknown"}

Audible_from_bytes(b) ==
    CASE b = 255 -> "Not"
      [] b = 0 -> "Barely"
      [] b = 1 -> "Fully"
      [] OTHER -> "Unknown"

Audible_to_bytes(t) ==
    CASE t = "Not" -> 255
      [] t = "Barely" -> 0
      [] t = "Fully" -> 1
      [] t = "Unknown" -> 2

ChatTypes ==
    {"Whisper", "Normal", "Shout", "Say", "StartTyping", "StopTyping",
     "Debug", "OwnerSay", "Unknown"}

ChatType_from_bytes(b) ==
    CASE b = 0 -> "Whisper"
      [] b = 1 -> "Normal"
      [] b = 2 -> "Shout"
      [] b = 3 -> "Say"
      [] b = 4 -> "StartTyping"
      [] b = 5 -> "StopTyping"
      [] b = 6 -> "Debug"
      [] b = 8 -> "OwnerSay"
      [] OTHER -> "Unknown"

ChatType_to_bytes(t) ==
    CASE t = "Whisper" -> 0
      [] t = "Normal" -> 1
      [] t = "Shout" -> 2
      [] t = "Say" -> 3
      [] t = "StartTyping" -> 4
      [] t = "StopTyping" -> 5
      [] t = "Debug" -> 6
      [] t = "OwnerSay" -> 8
      [] t = "Unknown" -> 9

\* ChatFromSimulator::to_bytes: the name and a zero, the two ids, the three
\* one-byte fields, the position, the message and a zero
ChatFromSimulator_to_bytes(p) ==
    p.from_name \o <<0>> \o p.source_id \o p.owner_id
    \o <<SourceType_to_bytes(p.source_type), ChatType_to_bytes(p.chat_type),
         Audible_to_bytes(p.audible)>>
    \o p.position \o p.message \o <<0>>

\* cursor.set_position(cursor.position() + 1) before the message is read
MessageSkip == 1

\* texts of up to MaxText characters
Chars == {65, 66}

Texts == UNION {[1..k -> Chars] : k \in 0..MaxText}

\* the nil Uuid and another one
Uuids == {[i \in 1..UuidLen |-> 0], [i \in 1..UuidLen |-> i]}

\* the bytes of two positions
Positions == {[i \in 1..Vec3Len |-> 0], [i \in 1..Vec3Len |-> 63]}

NoChat ==
    [from_name |-> <<>>, source_id |-> [i \in 1..UuidLen |-> 0],
     owner_id |-> [i \in 1..UuidLen |-> 0], source_type |-> "System",
     chat_type |-> "Normal", audible |-> "Fully",
     position |-> [i \in 1..Vec3Len |-> 0], message |-> <<>>]

\* ChatFromSimulator values: every name and message with two source ids, and
\* every value of the three enums with two positions
ChatBodies ==
    {[NoChat EXCEPT !.from_name = a, !.message = b, !.source_id = u] :
        a \in Texts, b \in Texts, u \in Uuids}
    \cup {[NoChat EXCEPT !.source_type = t, !.chat_type = c, !.audible = d,
                         !.position = q, !.owner_id = q \o <<1, 2, 3, 4>>] :
            t \in SourceTypes, c \in ChatTypes, d \in Audibles,
            q \in Positions}

\* ChatFromSimulator::from_bytes.  read_until(0) takes the bytes up to and
\* including the first zero (all of them when there is none); the two ids
\* are slices of the whole buffer, which panic when the buffer ends before
\* them; read_u8 and read_f32 return Err at the end of the buffer; the rest,
\* one byte skipped and the last byte dropped, is the message.
ChatFromSimulator_from_bytes(bytes) ==
    LET n == Len(bytes)
        zeros == {i \in 1..n : bytes[i] = 0}
        p0 == IF zeros = {} THEN n
              ELSE CHOOSE i \in zeros : \A j \in zeros : i <= j
        from_name == NoZeros(SubSeq(bytes, 1, p0))
        p1 == p0 + UuidLen
        p2 == p1 + UuidLen
        p3 == p2 + 3
        p4 == p3 + Vec3Len
        read == Rest(bytes, p4 + MessageSkip)
        message == IF read = <<>> THEN read
                   ELSE SubSeq(read, 1, Len(read) - 1)
    IN  IF ~String_from_utf8_ok(from_name) THEN Err
        ELSE IF p2 > n THEN Panic
        ELSE IF p4 > n THEN Err
        ELSE IF ~String_from_utf8_ok(message) THEN Err
        ELSE Ok([from_name |-> from_name,
                 source_id |-> SubSeq(bytes, p0 + 1, p1),
                 owner_id |-> SubSeq(bytes, p1 + 1, p2),
                 source_type |-> SourceType_from_bytes(bytes[p2 + 1]),
                 chat_type |-> ChatType_from_bytes(bytes[p2 + 2]),
                 audible |-> Audible_from_bytes(bytes[p2 + 3]),
                 position |-> SubSeq(bytes, p3 + 1, p4),
                 message |-> message])

LayerTypes ==
    {"Land", "LandExtended", "Water", "WaterExtended", "Wind",
     "WindExtended", "Cloud", "CloudExtended", "Unknown"}

LayerType_to_bytes(t) ==
    CASE t = "Land" -> 76
      [] t = "LandExtended" -> 77
      [] t = "Water" -> 87
      [] t = "WaterExtended" -> 88
      [] t = "Wind" -> 55
      [] t = "WindExtended" -> 57
      [] t = "Cloud" -> 56
      [] t = "CloudExtended" -> 58
      [] t = "Unknown" -> 0

LayerType_from_bytes(b) ==
    CASE b = 76 -> "Land"
      [] b = 77 -> "LandExtended"
      [] b = 87 -> "Water"
      [] b = 88 -> "WaterExtended"
      [] b = 55 -> "Wind"
      [] b = 57 -> "WindExtended"
      [] b = 56 -> "Cloud"
      [] b = 58 -> "CloudExtended"
      [] OTHER -> "Unknown"

\* LayerData::from_bytes: every read goes through the cursor and returns Err
\* at the end of the buffer; bytes 2 and 3 are skipped; the stride is a
\* little-endian u16
LayerData_from_bytes(bytes) ==
    IF Len(bytes) < 7 THEN Err
    ELSE Ok([layer_id |-> LayerType_from_bytes(bytes[1]),
             stride |-> bytes[4] + U8Mod * bytes[5],
             patch_size |-> bytes[6],
             layer_type |-> LayerType_from_bytes(bytes[7]),
             layer_content |-> Rest(bytes, 7)])

\* LayerData::to_bytes: the new vector is returned with nothing pushed
LayerData_to_bytes(p) == <<>>

\* LayerData values
LayerBodies ==
    [layer_id : LayerTypes, stride : {0, 264}, patch_size : {16},
     layer_type : {"Land", "Unknown"}, layer_content : {<<>>, <<1, 2>>}]

\* the bodies the receive loop forwards to the UI, and their bytes
EventBodies ==
    [kind : {"ChatFromSimulator"}, value : ChatBodies]
    \cup [kind : {"LayerData"}, value : LayerBodies]

to_bytes(b) ==
    IF b.kind = "LayerData" THEN LayerData_to_bytes(b.value)
    ELSE ChatFromSimulator_to_bytes(b.value)

\* the Header a packet constructor writes
NewHeader(id) ==
    [id |-> id, reliable |-> FALSE, resent |-> FALSE, zerocoded |-> FALSE,
     appended_acks |-> FALSE, sequence_number |-> 0, frequency |-> "Low"]

\* Packet::new_layer_data and Packet::new_chat_from_simulator
new_layer_data(p) ==
    [header |-> NewHeader(11), body |-> [kind |-> "LayerData", value |-> p]]

new_chat_from_simulator(p) ==
    [header |-> NewHeader(139),
     body |-> [kind |-> "ChatFromSimulator", value |-> p]]

from_bytes(kind, bytes) ==
    IF kind = "LayerData" THEN LayerData_from_bytes(bytes)
    ELSE ChatFromSimulator_from_bytes(bytes)

\* the bytes of a LayerData body as a peer sends it: the layer, two unused
\* bytes, the stride, the patch size, the layer type, the content
LayerSample == <<76, 0, 0, 8, 1, 16, 76, 5, 6>>

\* the bytes from_bytes reads into fields of fixed size
FixedLen(kind, bytes) ==
    IF kind = "LayerData" THEN 7
    ELSE LET zeros == {i \in 1..Len(bytes) : bytes[i] = 0}
             name == CHOOSE i \in zeros : \A j \in zeros : i <= j
         IN  name + UuidLen + UuidLen + 3 + Vec3Len

\* a packet is built by one of the two constructors
NewPacket ==
    /\ codec.pc = "new"
    /\ \E pk \in {new_layer_data(p) : p \in LayerBodies}
                 \cup {new_chat_from_simulator(p) : p \in ChatBodies} :
          codec' = [NoCodec EXCEPT !.pc = "built", !.header = pk.header,
                                   !.body = pk.body]
    /\ UNCHANGED <<agentVars, lifeVars, relayVars, pingVars, alive, inbox, session,
                   binds, loops, packet_sequence_number, ack_queue, tasks,
                   wire, assigned, sessIssued, pktIssued, reads, relSeqs,
                   sessReply, sendReply, errlog, ping_number, badReads,
                   reest>>

\* body.to_bytes()
Encode ==
    /\ codec.pc = "built"
    /\ codec' = [codec EXCEPT !.pc = "bytes", !.bytes = to_bytes(codec.body)]
    /\ UNCHANGED <<agentVars, lifeVars, relayVars, pingVars, alive, inbox, session,
                   binds, loops, packet_sequence_number, ack_queue, tasks,
                   wire, assigned, sessIssued, pktIssued, reads, relSeqs,
                   sessReply, sendReply, errlog, ping_number, badReads,
                   reest>>

\* a LayerData body arrives from the peer
Receive ==
    /\ codec.pc = "new"
    /\ codec' = [NoCodec EXCEPT !.pc = "bytes", !.bytes = LayerSample,
                                !.body = [kind |-> "LayerData",
                                          value |-> <<>>]]
    /\ UNCHANGED <<agentVars, lifeVars, relayVars, pingVars, alive, inbox, session,
                   binds, loops, packet_sequence_number, ack_queue, tasks,
                   wire, assigned, sessIssued, pktIssued, reads, relSeqs,
                   sessReply, sendReply, errlog, ping_number, badReads,
                   reest>>

\* the byte slice loses its end
Truncate ==
    /\ codec.pc = "bytes"
    /\ ~codec.cut
    /\ \E k \in 0..(Len(codec.bytes) - 1) :
          codec' = [codec EXCEPT
                       !.bytes = SubSeq(@, 1, k), !.cut = TRUE,
                       !.short = k < FixedLen(codec.body.kind, codec.bytes)]
    /\ UNCHANGED <<agentVars, lifeVars, relayVars, pingVars, alive, inbox, session,
                   binds, loops, packet_sequence_number, ack_queue, tasks,
                   wire, assigned, sessIssued, pktIssued, reads, relSeqs,
                   sessReply, sendReply, errlog, ping_number, badReads,
                   reest>>

\* from_bytes of the body's type is applied to the slice
Decode ==
    /\ codec.pc = "bytes"
    /\ codec' = [codec EXCEPT
                    !.pc = "decoded",
                    !.result = from_bytes(codec.body.kind, codec.bytes)]
    /\ UNCHANGED <<agentVars, lifeVars, relayVars, pingVars, alive, inbox, session,
                   binds, loops, packet_sequence_number, ack_queue, tasks,
                   wire, assigned, sessIssued, pktIssued, reads, relSeqs,
                   sessReply, sendReply, errlog, ping_number, badReads,
                   reest>>

\* ------------------------------------------------------------- UI relay
\* lengths of the names of the event types: a short name, MeshUpdate (the
\* type the agent relays) and a long name
TypeLens == {4, 10, 22}

\* msg.sequence_number of the message to relay (UiMessage::new writes 0)
BaseSeqs == {0, 7}

\* available_size for a message type whose name has tl characters
available_size(tl) ==
    max_message_size - (tl + U16Len + U16Len + U16Len + overhead)

\* the division rounded down
div_floor(a, b) == a \div b

\* usize::div_ceil
div_ceil(a, b) == IF a % b = 0 THEN a \div b ELSE (a \div b) + 1

Min(a, b) == IF a <= b THEN a ELSE b

\* payload lengths relayed, around the multiples of the chunk size a
PayloadLens(a) ==
    {0, 1, a - 1, a + 1, 3 * a + 1}
    \cup {k * a : k \in 1..(MaxChunks - 1)}
    \cup {(MaxChunks - 1) * a + 1}

\* which send_to calls of a relay call return Err: none, one, or all (the
\* peer is not listening)
FailSets(total) ==
    {{}, 0..(total - 1)} \cup {{i} : i \in 0..(total - 1)}

\* a payload of len bytes; the handler only slices it, so each byte is
\* represented by its position
Payload(len) == [i \in 1..len |-> i]

\* the loop stops at the first chunk whose send_to failed
Attempted_abort(total, fails) ==
    {i \in 0..(total - 1) : \A j \in fails : i <= j}

\* for chunk_index in 0..total_chunks: an Err of send_to is logged and the
\* loop goes on
Attempted(total, fails) == 0..(total - 1)

\* the chunked_message built for chunk_index i
Envelope(i, a, total, msg, base, count, fails) ==
    LET start == i * a
        end == Min(start + a, Len(msg))
    IN  [sequence_number |-> (base + i) % U16Mod,
         total_packet_number |-> total % U16Mod,
         packet_number |-> count,
         message |-> SubSeq(msg, start + 1, end),
         sent |-> i \notin fails]

\* the number of bytes of chunked_message.as_bytes(): the event-type tag,
\* the three u16 fields, the length of the chunk and the chunk
as_bytes_len(env) ==
    EnumTagLen + U16Len + U16Len + U16Len + VecLenLen + Len(env.message)

\* Handler<ServerToUiSocket>: self.server_to_ui_socket = Some(msg)
ConfigureUiSocket ==
    /\ alive
    /\ ~server_to_ui_socket
    /\ server_to_ui_socket' = TRUE
    /\ UNCHANGED <<agentVars, engineVars, lifeVars, sent_packet_count, relayed>>

\* the body of Handler<UiMessage> for a message of event kind ev whose type
\* name has tl characters, with sequence number base and len payload bytes.
\* The increment of the u16 counter at its maximum wraps to 0 or panics, as
\* the build has it.
Relay(ev, tl, base, len) ==
    LET a == available_size(tl)
        total == div_ceil(len, a)
    IN \E fails \in FailSets(total) :
         LET done == Attempted(total, fails)
             out == [k \in 1..Cardinality(done) |->
                       Envelope(k - 1, a, total, Payload(len), base,
                                sent_packet_count, fails)]
         IN IF ~server_to_ui_socket
              THEN /\ relayed' = [NoCall EXCEPT !.n = relayed.n + 1]
                   /\ UNCHANGED <<alive, sent_packet_count>>
              ELSE /\ relayed' = [n |-> relayed.n + 1,
                                  configured |-> TRUE, event |-> ev,
                                  len |-> len, type_len |-> tl,
                                  base |-> base,
                                  count |-> sent_packet_count,
                                  fails |-> fails, out |-> out]
                   /\ IF sent_packet_count + 1 < U16Mod
                        THEN /\ sent_packet_count' = sent_packet_count + 1
                             /\ UNCHANGED alive
                        ELSE \/ /\ sent_packet_count' = 0
                                /\ UNCHANGED alive
                             \/ /\ alive' = FALSE
                                /\ UNCHANGED sent_packet_count

\* Handler<UiMessage> for a message another part of the program sent (the
\* agent's mesh updates): the whole handler
HandleUiMessage ==
    /\ alive
    /\ relayed.n < MaxRelays
    /\ \E tl \in TypeLens, base \in BaseSeqs :
        \E len \in PayloadLens(available_size(tl)) :
            Relay("none", tl, base, len)
    /\ UNCHANGED <<agentVars, codec, lifeVars, pingVars, server_to_ui_socket, inbox, session, binds,
                   loops, packet_sequence_number, ack_queue, tasks, wire,
                   assigned, sessIssued, pktIssued, reads, relSeqs,
                   sessReply, sendReply, errlog, ping_number, badReads,
                   reest>>

\* recv_from returns a datagram that decodes to a packet, not reliable,
\* whose body b is of message type Event: the body matches no arm, and the
\* loop sends a UiMessage to the Mailbox and awaits the handler; with the
\* actor gone the send fails at once and the loop goes on.
RecvEvent(l) ==
    /\ loops[l].pc = "recv"
    /\ reads < MaxReads
    /\ reads' = reads + 1
    /\ \E b \in EventBodies, tl \in TypeLens :
         IF alive
           THEN /\ inbox' = Append(inbox,
                                   UiMsg(b.kind, tl, Len(to_bytes(b)), l))
                /\ loops' = [loops EXCEPT ![l] =
                                [pc |-> "await_ui",
                                 cur |-> [NoDatagram EXCEPT
                                             !.body = b.kind],
                                 guards |-> {}]]
           ELSE UNCHANGED <<inbox, loops>>
    /\ UNCHANGED <<agentVars, codec, lifeVars, relayVars, pingVars, badReads, reest, alive, session,
                   binds, packet_sequence_number, ack_queue, tasks, wire,
                   assigned, sessIssued, pktIssued, relSeqs, sessReply,
                   sendReply, errlog, ping_number>>

\* reliable packets whose body is of message type Event, with the length of
\* the name of their UI event and of their encoded body
ReliableEvents ==
    {[reliable |-> TRUE, seq |-> q, body |-> b.kind, ids |-> NoIds,
      type_len |-> tl, len |-> Len(to_bytes(b))] :
        q \in InSeqs, b \in EventBodies, tl \in TypeLens}

\* recv_from returns a datagram that decodes to a reliable event packet
RecvReliableEvent(l) ==
    /\ reads < MaxDups
    /\ \E d \in ReliableEvents : Decoded(l, d)

\* the UiMessage was handled by the Mailbox (or the actor is gone): the loop
\* goes back to recv_from
RecvUiSent(l) ==
    /\ loops[l].pc = "await_ui"
    /\ \/ ~alive
       \/ \A k \in DOMAIN inbox : inbox[k].from # l
    /\ loops' = [loops EXCEPT ![l] = RunningLoop]
    /\ UNCHANGED <<agentVars, codec, lifeVars, relayVars, pingVars, badReads, reest, alive, inbox,
                   session, binds, packet_sequence_number, ack_queue, tasks,
                   wire, assigned, sessIssued, pktIssued, reads, relSeqs,
                   sessReply, sendReply, errlog, ping_number>>

\* Handler<UiMessage> for the message at the head of the queue: the whole
\* handler
HandleQueuedUiMessage ==
    /\ alive
    /\ inbox # <<>>
    /\ Head(inbox).type = "UiMessage"
    /\ Relay(Head(inbox).body, Head(inbox).type_len, Head(inbox).seq,
             Head(inbox).len)
    /\ inbox' = Tail(inbox)
    /\ UNCHANGED <<agentVars, codec, lifeVars, pingVars, server_to_ui_socket, session, binds, loops,
                   packet_sequence_number, ack_queue, tasks, wire, assigned,
                   sessIssued, pktIssued, reads, relSeqs, sessReply,
                   sendReply, errlog, ping_number, badReads, reest>>

\* the Mailbox after any number of relay calls, before the next ones
InitRelay ==
    /\ Fresh
    /\ NoAgent
    /\ NoPing
    /\ Unsessioned
    /\ Started
    /\ server_to_ui_socket = FALSE
    /\ sent_packet_count \in {0, U16Mod - 2}
    /\ relayed = NoCall

NextRelay ==
    \/ ConfigureUiSocket
    \/ HandleUiMessage

SpecRelay == InitRelay /\ [][NextRelay]_vars

\* ------------------------------------------------------------ lifecycle
States == <<"Starting", "Running", "Stopping", "Stopped">>

\* position of a ServerState in the order of the enum
Rank(st) == CHOOSE k \in 1..Len(States) : States[k] = st

\* the actor starts in another state
StartState_stopped == "Stopped"

\* Actor::started: self.set_state(ServerState::Running, ctx)
StartState == "Running"

\* new_state == Running || new_state == Stopped
Notifies(st) == st \in {"Running", "Stopped"}

Waiting == {w \in WaiterIds : waiters[w].pc = "waiting"}

\* set_state: *state = new_state.clone()
StartedWrite ==
    /\ startpc \in DOMAIN SetStateSteps
    /\ SetStateSteps[startpc] = "write"
    /\ state' = StartState
    /\ startpc' = startpc + 1
    /\ UNCHANGED <<agentVars, engineVars, relayVars, permit, waiters>>

\* set_state: self.notify.notify_one() wakes one waiting task, or stores a
\* permit when none waits
StartedNotify ==
    /\ startpc \in DOMAIN SetStateSteps
    /\ SetStateSteps[startpc] = "notify"
    /\ startpc' = startpc + 1
    /\ IF ~Notifies(StartState)
         THEN UNCHANGED <<permit, waiters>>
         ELSE IF Waiting = {}
           THEN permit' = TRUE /\ UNCHANGED waiters
           ELSE /\ \E w \in Waiting :
                      waiters' = [waiters EXCEPT ![w].pc = "released"]
                /\ UNCHANGED permit
    /\ UNCHANGED <<agentVars, engineVars, relayVars, state>>

\* an external task calls notify.notified().await: a stored permit is taken
\* at once, otherwise the task waits
WaitBegin(w) ==
    /\ waiters[w].pc = "idle"
    /\ waiters' = [waiters EXCEPT
                      ![w].pc = IF permit THEN "released" ELSE "waiting",
                      ![w].early = startpc \in DOMAIN SetStateSteps]
    /\ permit' = FALSE
    /\ UNCHANGED <<agentVars, engineVars, relayVars, state, startpc>>

\* a released task reads the state: *state.lock().unwrap()
WaitRead(w) ==
    /\ waiters[w].pc = "released"
    /\ waiters' = [waiters EXCEPT ![w].pc = "checked", ![w].saw = state]
    /\ UNCHANGED <<agentVars, engineVars, relayVars, state, permit, startpc>>

\* the Mailbox as constructed, before the actor starts
InitLifecycle ==
    /\ Fresh
    /\ NoAgent
    /\ NoPing
    /\ Unsessioned
    /\ NoRelay
    /\ state = "Starting"
    /\ permit = FALSE
    /\ startpc = 1
    /\ waiters = [w \in WaiterIds |-> NoWaiter]

NextLifecycle ==
    \/ StartedWrite
    \/ StartedNotify
    \/ \E w \in WaiterIds : WaitBegin(w)
    \/ \E w \in WaiterIds : WaitRead(w)

SpecLifecycle == InitLifecycle /\ [][NextLifecycle]_vars

\* ---------------------------------------------------------- agent outfit
\* msg.item.item_type as the download future matches it: Object, Link, and
\* every other type
ObjectTypes == {"Object", "Link", "Other"}

\* a DownloadAgentAsset in the Mailbox queue, for the item of request k
DownloadMsg(k, ty) ==
    [type |-> "DownloadAgentAsset", req |-> k, reliable |-> FALSE,
     body |-> ty, ids |-> NoIds, ping |-> <<>>, from |-> 0, seq |-> 0]

\* Agent { avatar: agent.clone() }: the message carries the outfit items as
\* they are when it is sent
AgentMsg(items) ==
    [type |-> "Agent", req |-> 0, reliable |-> FALSE, body |-> "none",
     ids |-> NoIds, ping |-> <<>>, from |-> 0, seq |-> 0, items |-> items]

\* lengths of an encoded MeshUpdate
MeshUpdateLens == {1, available_size(MeshUpdateNameLen) + 1}

\* the render is triggered again for every item past the outfit size
AllLoaded_atleast(items, size) == Len(items) >= size

\* agent.outfit_items.len() == agent.outfit_size
AllLoaded(items, size) == Len(items) = size

\* a future spawned on the actor that had not finished when it panicked
DropDownloads(ds) ==
    [k \in DlIds |->
        IF ds[k].pc \in {"fetch", "meshes"}
          THEN [ds[k] EXCEPT !.pc = "dropped"] ELSE ds[k]]

\* a caller sends a DownloadAgentAsset message to the Mailbox
SendDownload ==
    /\ alive
    /\ Len(inbox) < MaxInbox
    /\ \E k \in DlIds, ty \in ObjectTypes :
          /\ downloads[k].pc = "none"
          /\ \A j \in DlIds : j < k => downloads[j].pc # "none"
          /\ downloads' = [downloads EXCEPT
                             ![k] = [pc |-> "queued", item_type |-> ty]]
          /\ inbox' = Append(inbox, DownloadMsg(k, ty))
    /\ UNCHANGED <<agent_list, renders, codec, lifeVars, relayVars, pingVars,
                   badReads, reest, alive, session, binds, loops,
                   packet_sequence_number, ack_queue, tasks, wire, assigned,
                   sessIssued, pktIssued, reads, sessReply, sendReply,
                   errlog, ping_number, relSeqs>>

\* Handler<DownloadAgentAsset>: with a session, the download future is
\* spawned on the actor; without one the message is dropped
HandleDownloadAgentAsset ==
    /\ alive
    /\ inbox # <<>>
    /\ Head(inbox).type = "DownloadAgentAsset"
    /\ inbox' = Tail(inbox)
    /\ downloads' = [downloads EXCEPT
                       ![Head(inbox).req].pc =
                           IF HasSession(session) THEN "fetch" ELSE "ignored"]
    /\ UNCHANGED <<agent_list, renders, codec, lifeVars, relayVars, pingVars,
                   badReads, reest, alive, session, binds, loops,
                   packet_sequence_number, ack_queue, tasks, wire, assigned,
                   sessIssued, pktIssued, reads, sessReply, sendReply,
                   errlog, ping_number, relSeqs>>

\* add_item_to_agent_list: under the lock of the list, the item is pushed
\* onto the agent's outfit, and the Agent message is sent to the Mailbox
\* when the outfit is complete; nothing happens for an agent that is not in
\* the list
AddItem(item) ==
    IF agent_list.present
      THEN LET items == Append(agent_list.outfit_items, item)
           IN /\ agent_list' = [agent_list EXCEPT !.outfit_items = items]
              /\ IF AllLoaded(items, agent_list.outfit_size)
                   THEN /\ inbox' = Append(inbox, AgentMsg(items))
                        /\ renders' = renders + 1
                   ELSE UNCHANGED <<inbox, renders>>
      ELSE UNCHANGED <<agent_list, inbox, renders>>

\* first stretch of the download future of request k.  A Link completes at
\* once.  An Object awaits download_object: Err is logged, Ok goes on to
\* the meshes of its parts.  Any other type awaits download_item: Err is
\* logged, Ok adds the item to the agent's outfit.
Fetch(k) ==
    /\ alive
    /\ downloads[k].pc = "fetch"
    /\ \E ok \in BOOLEAN :
          CASE downloads[k].item_type = "Link" ->
                 /\ downloads' = [downloads EXCEPT ![k].pc = "done"]
                 /\ UNCHANGED <<agent_list, inbox, renders>>
            [] downloads[k].item_type = "Object" ->
                 /\ downloads' = [downloads EXCEPT
                                    ![k].pc = IF ok THEN "meshes"
                                                    ELSE "done"]
                 /\ UNCHANGED <<agent_list, inbox, renders>>
            [] OTHER ->
                 /\ downloads' = [downloads EXCEPT ![k].pc = "done"]
                 /\ IF ok THEN AddItem("Item")
                          ELSE UNCHANGED <<agent_list, inbox, renders>>
    /\ UNCHANGED <<codec, lifeVars, relayVars, pingVars, badReads, reest,
                   alive, session, binds, loops, packet_sequence_number,
                   ack_queue, tasks, wire, assigned, sessIssued, pktIssued,
                   reads, sessReply, sendReply, errlog, ping_number,
                   relSeqs>>

\* the download_mesh calls of an Object have all returned.  With the mesh of
\* the first part in place create_skeleton returns Some and the rigged
\* object is added to the agent's outfit; without it (an empty scene group,
\* a failed download_mesh) the unwrap panics inside the actor.
Meshes(k) ==
    /\ alive
    /\ downloads[k].pc = "meshes"
    /\ \E skeleton \in BOOLEAN :
          IF skeleton
            THEN /\ downloads' = [downloads EXCEPT ![k].pc = "done"]
                 /\ AddItem("RiggedObject")
                 /\ UNCHANGED <<alive, binds, tasks>>
            ELSE /\ alive' = FALSE
                 /\ inbox' = <<>>
                 /\ binds' = DropBinds(binds)
                 /\ tasks' = DropTasks(tasks)
                 /\ downloads' = DropDownloads(
                                     [downloads EXCEPT ![k].pc = "panicked"])
                 /\ UNCHANGED <<agent_list, renders>>
    /\ UNCHANGED <<codec, lifeVars, relayVars, pingVars, badReads, reest,
                   session, loops, packet_sequence_number, ack_queue, wire,
                   assigned, sessIssued, pktIssued, reads, sessReply,
                   sendReply, errlog, ping_number, relSeqs>>

\* the mesh updates Handler<Agent> sends for c rigged objects
MeshUpdates(c, len) ==
    [i \in 1..c |-> UiMsg("MeshUpdate", MeshUpdateNameLen, len, 0)]

\* Handler<Agent>: for every rigged object of the avatar whose files could
\* be generated, a MeshUpdate is sent to the Mailbox as a UiMessage; an Item
\* is only printed
HandleAgent ==
    /\ alive
    /\ inbox # <<>>
    /\ Head(inbox).type = "Agent"
    /\ LET rigged == SelectSeq(Head(inbox).items,
                               LAMBDA x : x = "RiggedObject")
       IN \E c \in 0..Len(rigged), len \in MeshUpdateLens :
             inbox' = Tail(inbox) \o MeshUpdates(c, len)
    /\ UNCHANGED <<agentVars, codec, lifeVars, relayVars, pingVars, badReads,
                   reest, alive, session, binds, loops,
                   packet_sequence_number, ack_queue, tasks, wire, assigned,
                   sessIssued, pktIssued, reads, sessReply, sendReply,
                   errlog, ping_number, relSeqs>>

\* The outfit of one agent of an established session: the agent is in the
\* list with no item loaded yet and an outfit of any size, or is not in the
\* list.
InitAgent ==
    /\ Fresh
    /\ NoPing
    /\ Started
    /\ NoRelay
    /\ sessIssued = 1
    /\ session = [present |-> TRUE, socket |-> 1]
    /\ binds = [i \in ReqIds |-> IF i = 1 THEN "ok" ELSE "none"]
    /\ loops = [i \in ReqIds |-> IF i = 1 THEN RunningLoop ELSE NoLoop]
    /\ sessReply = [i \in ReqIds |-> IF i = 1 THEN "unit" ELSE "none"]
    /\ agent_list \in
          {NoAvatar}
          \cup {[present |-> TRUE, outfit_size |-> z, outfit_items |-> <<>>] :
                   z \in 0..MaxOutfit}
    /\ downloads = [k \in DlIds |-> NoDownload]
    /\ renders = 0

NextAgent ==
    \/ SendDownload
    \/ HandleDownloadAgentAsset
    \/ \E k \in DlIds : Fetch(k)
    \/ \E k \in DlIds : Meshes(k)
    \/ HandleAgent
    \/ ConfigureUiSocket
    \/ HandleQueuedUiMessage

SpecAgent == InitAgent /\ [][NextAgent]_vars

\* ------------------------------------------------------- specifications
Next ==
    \/ SendSession
    \/ SendPacket
    \/ SendPing
    \/ HandleSession
    \/ \E i \in ReqIds : BindOk(i)
    \/ \E i \in ReqIds : BindErr(i)
    \/ HandlePing
    \/ HandlePacket
    \/ \E n \in SeqIds : SendAckStart(n)
    \/ \E n \in SeqIds : SendAckTransmit(n)
    \/ \E n \in SeqIds : SendAckReceived(n)
    \/ \E n \in SeqIds : SendAckTimeout(n)
    \/ \E n \in SeqIds : PlainSend(n)
    \/ \E l \in ReqIds : RecvDatagram(l)
    \/ \E l \in ReqIds : RecvUndecodable(l)
    \/ \E l \in ReqIds : RecvAckSent(l)
    \/ \E l \in ReqIds : RecvFail(l)
    \/ Tick

\* the session engine from construction, with packets as the constructors
\* build them
Spec == Init /\ [][Next]_vars

\* ... with every enabled step eventually taken: the executor polls every
\* ready future and the actor handles every queued message
SpecFair == Spec /\ WF_vars(Next)

\* The engine of one session: the Mailbox as it is before any Session
\* request, or with its one session established (socket 1 bound, its receive
\* loop running), and no further Session request.
InitEngine ==
    /\ Fresh
    /\ NoAgent
    /\ NoPing
    /\ Started
    /\ NoRelay
    /\ sessIssued \in {0, 1}
    /\ session = IF sessIssued = 1
                   THEN [present |-> TRUE, socket |-> 1] ELSE NoSession
    /\ binds = [i \in ReqIds |->
                  IF i <= sessIssued THEN "ok" ELSE "none"]
    /\ loops = [i \in ReqIds |->
                  IF i <= sessIssued THEN RunningLoop ELSE NoLoop]
    /\ sessReply = [i \in ReqIds |->
                      IF i <= sessIssued THEN "unit" ELSE "none"]

NextEngine ==
    \/ SendPacket
    \/ SendPing
    \/ HandlePing
    \/ HandlePacket
    \/ \E n \in SeqIds : SendAckStart(n)
    \/ \E n \in SeqIds : SendAckTransmit(n)
    \/ \E n \in SeqIds : SendAckReceived(n)
    \/ \E n \in SeqIds : SendAckTimeout(n)
    \/ \E n \in SeqIds : PlainSend(n)
    \/ \E l \in ReqIds : RecvDatagram(l)
    \/ \E l \in ReqIds : RecvAckSent(l)
    \/ Tick

SpecEngine == InitEngine /\ [][NextEngine]_vars

\* The receive side of one established session: callers' packets and their
\* send futures up to the wait for the acknowledgment, and the receive loop
\* with datagrams that do not decode and reads that fail.
InitReceive ==
    /\ InitEngine
    /\ sessIssued = 1

NextReceive ==
    \/ SendPacket
    \/ HandlePacket
    \/ \E n \in SeqIds : SendAckStart(n)
    \/ \E n \in SeqIds : SendAckTransmit(n)
    \/ \E n \in SeqIds : SendAckReceived(n)
    \/ \E n \in SeqIds : PlainSend(n)
    \/ \E l \in ReqIds : RecvDatagram(l)
    \/ \E l \in ReqIds : RecvUndecodable(l)
    \/ \E l \in ReqIds : RecvAckSent(l)
    \/ \E l \in ReqIds : RecvFail(l)

SpecReceive == InitReceive /\ [][NextReceive]_vars

\* The send side of one established session with no inbound traffic: every
\* kind of send request, the numbering, and the transmissions and
\* retransmissions of the send futures.
NextStamp ==
    \/ SendPacket
    \/ SendHeldPacket
    \/ SendPing
    \/ HandlePing
    \/ HandlePacket
    \/ \E n \in SeqIds : SendAckStart(n)
    \/ \E n \in SeqIds : SendAckTransmit(n)
    \/ \E n \in SeqIds : SendAckTimeout(n)
    \/ \E n \in SeqIds : PlainSend(n)
    \/ Tick

SpecStamp == InitReceive /\ [][NextStamp]_vars

\* The forwarding of inbound events of one established session to the UI:
\* the receive loop, the Mailbox queue and the relay handler.
NextForward ==
    \/ ConfigureUiSocket
    \/ \E l \in ReqIds : RecvEvent(l)
    \/ \E l \in ReqIds : RecvUiSent(l)
    \/ HandleQueuedUiMessage

SpecForward == InitReceive /\ [][NextForward]_vars

\* Reliable event packets arriving at one established session, the same one
\* more than once included: the receive loop, the acknowledgments it has the
\* Mailbox send, and the relay of the events to the UI.
NextDup ==
    \/ ConfigureUiSocket
    \/ \E l \in ReqIds : RecvReliableEvent(l)
    \/ \E l \in ReqIds : RecvAckSent(l)
    \/ \E l \in ReqIds : RecvUiSent(l)
    \/ HandlePacket
    \/ \E n \in SeqIds : PlainSend(n)
    \/ HandleQueuedUiMessage

SpecDup == InitReceive /\ [][NextDup]_vars

\* The send side of one established session whose socket can fail to
\* transmit, with no inbound traffic.
NextSendErr ==
    \/ SendPacket
    \/ HandlePacket
    \/ \E n \in SeqIds : SendAckStart(n)
    \/ \E n \in SeqIds : SendAckTransmit(n)
    \/ \E n \in SeqIds : SendAckTransmitErr(n)
    \/ \E n \in SeqIds : SendAckTimeout(n)
    \/ \E n \in SeqIds : PlainSend(n)
    \/ Tick

SpecSendErr == InitReceive /\ [][NextSendErr]_vars

\* The keepalive of one established session.  The Mailbox has handled no
\* ping yet, or 254 of them before the session was established (their
\* control packets were dropped for want of a session and took no sequence
\* number).
InitPing ==
    /\ Fresh
    /\ NoAgent
    /\ Started
    /\ NoRelay
    /\ sessIssued = 1
    /\ session = [present |-> TRUE, socket |-> 1]
    /\ binds = [i \in ReqIds |-> IF i = 1 THEN "ok" ELSE "none"]
    /\ loops = [i \in ReqIds |-> IF i = 1 THEN RunningLoop ELSE NoLoop]
    /\ sessReply = [i \in ReqIds |-> IF i = 1 THEN "unit" ELSE "none"]
    /\ ping_number \in {0, U8Mod - 2}
    /\ sent_at = [i \in 0..(ping_number - 1) |-> 0]

NextPing ==
    \/ SendPing
    \/ HandlePing
    \/ HandlePong
    \/ HandlePacket
    \/ \E n \in SeqIds : PlainSend(n)
    \/ \E l \in ReqIds : RecvPong(l)
    \/ \E l \in ReqIds : RecvPongSent(l)
    \/ Clock

SpecPing == InitPing /\ [][NextPing]_vars

\* The packet codecs on their own: a body built by its constructor and
\* encoded, or received from the peer, possibly truncated, then decoded.
NextCodec ==
    \/ NewPacket
    \/ Encode
    \/ Receive
    \/ Truncate
    \/ Decode

SpecCodec == Init /\ [][NextCodec]_vars

\* ------------------------------------------------------------------------
\* Properties
\* ------------------------------------------------------------------------
IsAck(x) == x.body = "PacketAck"

Reliable(n) == tasks[n].kind = "reliable"

C3_AckInFirstWaitSucceedsAtOnce ==
    \A n \in SeqIds :
        tasks[n].ackedFirstWait =>
            /\ tasks[n].txCount = 1
            /\ tasks[n].attempts = 0
            /\ tasks[n].pc = "done" => tasks[n].result = "Ok"

\* C4: an entry for n is in the table only while the reliable send of n is
\* in its send/retry cycle.
C4_EntryOnlyDuringCycle ==
    \A n \in ack_queue :
        /\ n \in SeqIds
        /\ Reliable(n)
        /\ tasks[n].pc \in {"sending", "select"}

\* the acknowledgments the Mailbox was given, in the order of their numbers:
\* those already numbered, then those still in its queue
AckTrail ==
    LET numbered == SelectSeq([k \in 1..Len(assigned) |->
                                   tasks[assigned[k]]], IsAck)
        queued == SelectSeq(inbox, IsAck)
    IN  [k \in 1..Len(numbered) |-> numbered[k].ids]
        \o [k \in 1..Len(queued) |-> queued[k].ids]

\* C5: while the Mailbox runs, the acknowledgments dispatched by the loops
\* are, one for one and in order, the reliable packets decoded: each lists
\* exactly the sequence number of its packet, and each one handled has been
\* given a number by the Mailbox's counter like any other send.
C5_OneAckPerReliablePacket ==
    alive =>
        /\ AckTrail = [k \in 1..Len(relSeqs) |-> <<relSeqs[k]>>]
        /\ \A n \in SeqIds :
              IsAck(tasks[n]) => \E k \in 1..Len(assigned) : assigned[k] = n

\* the acknowledgment of a reliable packet numbered 1 by the peer went out
\* after another send had taken number 0
C5_Witness ==
    /\ alive
    /\ relSeqs = <<1>>
    /\ IsAck(tasks[1]) /\ tasks[1].pc = "done"
    /\ \E w \in wire : w.seq = 1 /\ w.body = "PacketAck" /\ w.ids = <<1>>

C7_OneBindOneLoop ==
    /\ Cardinality({i \in ReqIds : binds[i] # "none"}) <= 1
    /\ Cardinality({l \in ReqIds : loops[l].pc # "none"}) <= 1

\* C8: at most one receive loop is running, and a loop exists only for a
\* bind that succeeded.
C8_AtMostOneRunningLoop ==
    /\ Cardinality({l \in ReqIds : loops[l].pc \in {"recv", "await_ack"}}) <= 1
    /\ \A l \in ReqIds : loops[l].pc # "none" => binds[l] = "ok"

\* C9: when the bind of a Session request fails, the caller of that request
\* gets a failure back and the Mailbox is still running.
C9_BindFailureReported ==
    \A i \in ReqIds :
        binds[i] = "err" => (sessReply[i] = "failure" /\ alive)

\* C10: when a reliable send has run out of attempts, the caller of that
\* send request gets a failure back.
C10_ExhaustionReported ==
    \A n \in SeqIds :
        tasks[n].result = "Err" => sendReply[n] = "failure"

Running(l) == loops[l].pc \in {"recv", "await_ack"}

\* C11: a step in which a datagram fails to decode changes nothing but the
\* count of datagrams read: no acknowledgment is queued, the table and the
\* send futures are untouched, and the loop is back at its read.  A loop that
\* broke on a read failure never changes again, and nothing is read when no
\* loop is at its read.
C11_DecodeFailureContinuesReadFailureStops ==
    [][/\ badReads' # badReads =>
             /\ loops' = loops
             /\ inbox' = inbox
             /\ ack_queue' = ack_queue
             /\ tasks' = tasks
             /\ relSeqs' = relSeqs
       /\ \A l \in ReqIds :
             loops[l].pc = "stopped" => loops'[l] = loops[l]
       /\ (\A l \in ReqIds : loops[l].pc # "recv") => reads' = reads]_vars

\* a datagram failed to decode, the loop went back to its read, and that read
\* failed: the loop has stopped, with a registration still in the table
C11_Witness ==
    /\ badReads > 0
    /\ loops[1].pc = "stopped"
    /\ ack_queue # {}

\* C12: once a Session request has been handled after a receive loop broke on
\* a read failure (and no bind is still under way), a receive loop is
\* running.
C12_ReestablishRestartsLoop ==
    (alive /\ reest /\ \A i \in ReqIds : binds[i] # "pending")
        => \E l \in ReqIds : Running(l)

\* C13: every entry of the table is eventually removed, whatever becomes of
\* the send future that inserted it.
C13_EveryEntryEventuallyRemoved ==
    \A n \in SeqIds : (n \in ack_queue) ~> (n \notin ack_queue)

\* C14: every datagram handed to the socket carries in its header the number
\* the Mailbox assigned to its send request (first transmission or
\* retransmission), whatever number the packet held when it was submitted.
C14_HeaderCarriesAssignedNumber ==
    \A w \in wire :
        /\ w.seq = w.slot
        /\ \E k \in 1..Len(assigned) : assigned[k] = w.seq

\* a retransmission of a packet that was submitted holding another number
C14_Witness ==
    \E w \in wire :
        /\ w.resent
        /\ tasks[w.slot].held # w.slot
        /\ w.seq = w.slot

\* C15: the lifecycle state only ever changes to the state that follows it
\* in Starting, Running, Stopping, Stopped, and once Actor::started has
\* written it, it is Running.
C15_LifecycleOnlyForward ==
    /\ [](startpc > 1 => state = "Running")
    /\ [][state' # state => Rank(state') = Rank(state) + 1]_vars

\* the actor has started
C15_Witness == startpc > Len(SetStateSteps) /\ state = "Running"

\* C16: a task released from notified() finds the state Running, whether it
\* began to wait before the notification or after it.
C16_ReleasedWaiterSeesRunning ==
    \A w \in WaiterIds :
        /\ waiters[w].pc = "released" => state = "Running"
        /\ waiters[w].pc = "checked" => waiters[w].saw = "Running"

\* a task that began to wait after set_state had returned took the stored
\* permit and has read the state
C16_Witness ==
    \E w \in WaiterIds :
        /\ waiters[w].pc = "checked"
        /\ ~waiters[w].early
        /\ waiters[w].saw = "Running"

\* C17: once set_state has published the notification, no task that was
\* waiting for it is still blocked.
C17_EveryWaiterReleased ==
    startpc > Len(SetStateSteps) =>
        \A w \in WaiterIds :
            ~(waiters[w].pc = "waiting" /\ waiters[w].early)

RECURSIVE Concat(_)
\* the payload chunks of a sequence of envelopes put end to end
Concat(envs) ==
    IF envs = <<>> THEN <<>>
    ELSE Head(envs).message \o Concat(Tail(envs))

\* C18: a relay call given a payload of L > 0 bytes hands to the UI socket
\* exactly ceil(L / available_size) envelopes, numbered base, base+1, ... in
\* that order, each carrying that count as its total and a chunk that is not
\* empty; their chunks put end to end are the payload; L = 3 * available_size
\* + 1 gives 4 envelopes.
C18_ChunkingReconstructsPayload ==
    (relayed.configured /\ relayed.len > 0) =>
        LET a == available_size(relayed.type_len)
            N == Len(relayed.out)
        IN /\ (N - 1) * a < relayed.len /\ relayed.len <= N * a
           /\ \A k \in 1..N :
                 /\ relayed.out[k].sequence_number = relayed.base + (k - 1)
                 /\ relayed.out[k].total_packet_number = N
                 /\ relayed.out[k].message # <<>>
           /\ Concat(relayed.out) = Payload(relayed.len)
           /\ relayed.len = 3 * a + 1 => N = 4

\* a payload of 3 * available_size + 1 bytes was relayed in 4 envelopes
C18_Witness ==
    /\ relayed.configured
    /\ relayed.len = 3 * available_size(relayed.type_len) + 1
    /\ Len(relayed.out) = 4
    /\ Len(relayed.out[4].message) = 1

\* C19: after a relay call handled with a UI socket configured, the counter
\* is one more than before the call, and every envelope of the call carries
\* the value the counter had before the call.
C19_CounterOncePerRelay ==
    relayed.configured =>
        /\ sent_packet_count = relayed.count + 1
        /\ \A k \in 1..Len(relayed.out) :
              relayed.out[k].packet_number = relayed.count

\* C20: whichever envelopes of a relay call fail to be transmitted, every
\* chunk of the payload is handed to the socket, the ones after a failure
\* included, and the Mailbox runs on (unless the counter was at its maximum).
C20_RelayFailureDoesNotAbort ==
    relayed.configured =>
        LET a == available_size(relayed.type_len)
            N == Len(relayed.out)
        IN /\ (N - 1) * a < relayed.len /\ relayed.len <= N * a
           /\ \A k \in 1..N : relayed.out[k].sent = (k - 1 \notin relayed.fails)
           /\ relayed.count + 1 < U16Mod => alive

\* the first envelope of four failed and the other three went out
C20_Witness ==
    /\ relayed.configured
    /\ relayed.fails = {0}
    /\ Len(relayed.out) = 4
    /\ \A k \in 2..4 : relayed.out[k].sent

\* C21: every envelope handed to the UI socket by a relay call is, once
\* serialized, at most 1024 bytes long, whatever the event type and the
\* length of the payload.
C21_EnvelopeWithinFrame ==
    relayed.configured =>
        \A k \in 1..Len(relayed.out) :
            as_bytes_len(relayed.out[k]) <= max_message_size

\* C22: when the Mailbox, with a UI socket configured, has handled the
\* message a receive loop forwarded for a decoded packet of message type
\* Event, at least one envelope carrying that event was handed to the UI
\* socket.
C22_EventReachesUi ==
    (relayed.configured /\ relayed.event # "none") =>
        Len(relayed.out) >= 1

\* a step in which the Mailbox handles the Ping at the head of its queue
PingStep ==
    /\ alive
    /\ inbox # <<>>
    /\ Head(inbox).type = "Ping"
    /\ Len(inbox') <= Len(inbox)
    /\ inbox' # inbox

\* a step in which the Mailbox handles the Pong at the head of its queue
PongStep ==
    /\ alive
    /\ inbox # <<>>
    /\ Head(inbox).type = "Pong"
    /\ Len(inbox') <= Len(inbox)
    /\ inbox' # inbox

\* the message a handler put at the end of the queue in this step
Emitted == inbox'[Len(inbox')]

\* C23: every Ping handled raises the ping id by exactly one, and every
\* start-ping-check packet the Mailbox emits (for a Ping or for a Pong)
\* carries a ping id that is not smaller than any emitted before it.
C23_PingIdMonotonic ==
    [][/\ PingStep => ping_number' = ping_number + 1
       /\ (PingStep \/ PongStep) /\ alive' =>
             /\ Emitted.body = "StartPingCheck"
             /\ \A j \in DOMAIN sent_at : j <= Emitted.ping[1]]_vars

\* the sequence numbers whose reliable send is still going on
Unacked ==
    {n \in SeqIds : /\ tasks[n].kind = "reliable"
                    /\ tasks[n].pc \notin {"none", "done", "dropped"}}

\* C24: the control packet a Ping emits while reliable sends are pending
\* carries as oldest_unacked the smallest sequence number among them.
C24_PingCarriesOldestUnacked ==
    [][(PingStep /\ alive' /\ Unacked # {}) =>
          /\ Emitted.ping[2] \in Unacked
          /\ \A n \in Unacked : Emitted.ping[2] <= n]_vars

\* C25: the latency a Pong records is the time it is handled minus the time
\* at which the ping it answers was emitted, whether a Ping or an earlier
\* Pong emitted it, and the handler emits the control packet of the next
\* ping.
C25_PongLatencyFromAnsweredPing ==
    [][PongStep =>
          /\ ping_latency' = now - sent_at[Head(inbox).ping[1]]
          /\ Emitted.body = "StartPingCheck"
          /\ Emitted.ping[1] = ping_number]_vars

\* C26: from_bytes of a body (LayerData, ChatFromSimulator) given a
\* truncated byte slice never panics, and returns an error when the slice
\* ends inside the fields of fixed size.
C26_DecodeFailureIsAnError ==
    (codec.pc = "decoded" /\ codec.cut) =>
        /\ codec.result.kind # "Panic"
        /\ codec.short => codec.result.kind = "Err"

\* C27: a LayerData packet is built with id 11, frequency Low, not reliable
\* and not resent, and decoding the bytes its body encodes to gives back the
\* same body.
C27_LayerDataRoundTrip ==
    (/\ codec.pc = "decoded"
     /\ codec.body.kind = "LayerData"
     /\ codec.header # <<>>
     /\ ~codec.cut) =>
        /\ codec.header.id = 11
        /\ codec.header.frequency = "Low"
        /\ ~codec.header.reliable
        /\ ~codec.header.resent
        /\ codec.result = Ok(codec.body.value)

\* C28: decoding the bytes a ChatFromSimulator body encodes to, its name
\* and message holding no zero byte, gives back the same body.
C28_ChatFromSimulatorRoundTrip ==
    (/\ codec.pc = "decoded"
     /\ codec.body.kind = "ChatFromSimulator"
     /\ ~codec.cut) =>
        codec.result = Ok(codec.body.value)

C30_LateAckIsNoOp ==
    [][\A n \in SeqIds :
          tasks'[n].ackedLate > tasks[n].ackedLate =>
             /\ n \notin ack_queue
             /\ n \notin ack_queue'
             /\ ack_queue' \subseteq ack_queue
             /\ \A m \in ack_queue \ ack_queue' : tasks'[m].acked
             /\ [tasks'[n] EXCEPT !.ackedLate = tasks[n].ackedLate]
                    = tasks[n]
             /\ tasks[n].result = "Err"
             /\ n \in errlog
             /\ errlog' = errlog
             /\ packet_sequence_number' = packet_sequence_number
             /\ sendReply' = sendReply]_vars

\* an acknowledgment listing n was processed after the send of n had failed
C30_Witness ==
    \E n \in SeqIds :
        /\ tasks[n].ackedLate > 0
        /\ tasks[n].result = "Err"
        /\ tasks[n].txCount = ACK_ATTEMPTS
        /\ n \notin ack_queue
        /\ n \in errlog

\* C31: no future holds a lock on the sequence counter, the reliability
\* table or the lifecycle state where it is suspended: a send future at
\* send_to, in select! or before its first poll, and a receive loop at
\* recv_from or at a send to the Mailbox, hold no guard.
C31_NoLockAcrossSuspension ==
    /\ \A n \in SeqIds : tasks[n].guards \cap Locks = {}
    /\ \A l \in ReqIds : loops[l].guards \cap Locks = {}

\* a send future is suspended at send_to after it registered a second time,
\* and the receive loop is back at recv_from after it ran the PacketAck arm
C31_Witness ==
    /\ \E n \in SeqIds :
          /\ tasks[n].pc = "sending"
          /\ tasks[n].attempts > 0
          /\ n \in ack_queue
    /\ \E m \in SeqIds : tasks[m].acked
    /\ \E l \in ReqIds : loops[l].pc = "recv"
    /\ reads > 0

\* UiMessages the receive loops have sent to the Mailbox: those handled and
\* those still in its queue
Forwarded ==
    relayed.n + Len(SelectSeq(inbox, LAMBDA m : m.type = "UiMessage"))

\* C32: while the Mailbox runs, every receipt of a reliable event packet
\* has one acknowledgment dispatched for it, listing its sequence number, and
\* one UI event forwarded for it once the acknowledgment was handled,
\* whether or not a packet of that sequence number was received before.
C32_NoDuplicateSuppression ==
    alive =>
        /\ AckTrail = [k \in 1..Len(relSeqs) |-> <<relSeqs[k]>>]
        /\ Forwarded =
              Len(relSeqs)
                - Cardinality({l \in ReqIds : loops[l].pc = "await_ack"})

\* the reliable event packet numbered 1 was received twice: two
\* acknowledgments listing 1 went out and two UI events were relayed
C32_Witness ==
    /\ alive
    /\ relSeqs = <<1, 1>>
    /\ Cardinality({w \in wire : w.body = "PacketAck" /\ w.ids = <<1>>}) = 2
    /\ relayed.n = 2
    /\ \A l \in ReqIds : loops[l].pc \in {"none", "recv"}

\* C33: a send that has reported success is a reliable send for whose
\* number an acknowledgment listing that number was processed during its
\* cycle, and a completion signal is fulfilled only for a number that was
\* listed: acknowledgments of other numbers and other sends in flight leave
\* it pending.
C33_SuccessOnlyByOwnAck ==
    \A n \in SeqIds :
        /\ tasks[n].result = "Ok" => (Reliable(n) /\ tasks[n].acked)
        /\ (Reliable(n) /\ ~tasks[n].acked) =>
              /\ tasks[n].rx # "ready"
              /\ tasks[n].pc = "done" => tasks[n].result = "Err"

\* two reliable sends were in flight together; the acknowledgment of the
\* later one was processed and it succeeded, while the earlier one is still
\* registered and pending
C33_Witness ==
    /\ Reliable(0) /\ Reliable(1)
    /\ tasks[1].result = "Ok"
    /\ tasks[1].acked
    /\ ~tasks[0].acked
    /\ 0 \in ack_queue
    /\ tasks[0].rx = "pending"

\* C34: a reliable send whose completion signal is fulfilled (an
\* acknowledgment listing its number was processed while its entry was in
\* the table) never goes on to report failure.
C34_AckWhileRegisteredSucceeds ==
    [][\A n \in SeqIds :
          (Reliable(n) /\ tasks[n].rx = "ready") =>
              tasks'[n].result # "Err"]_vars

\* C35: whenever the next message the Mailbox handles is a Packet and a
\* session is present, the socket of that session is attached.
C35_SocketAttachedWhenPacketHandled ==
    (/\ alive
     /\ inbox # <<>>
     /\ Head(inbox).type = "Packet"
     /\ session.present) =>
        session.socket # 0

\* C36: a step in which the Mailbox handles a Packet while it has no
\* session only takes the message off the queue: the Mailbox goes on
\* running, nothing is handed to a socket, no send future is spawned, the
\* sequence counter and the numbers assigned are as before, and the
\* reliability table is untouched.
C36_NoSessionPacketDropped ==
    [][(/\ alive
        /\ inbox # <<>>
        /\ Head(inbox).type = "Packet"
        /\ ~session.present
        /\ Len(inbox') < Len(inbox)) =>
           /\ alive'
           /\ inbox' = Tail(inbox)
           /\ wire' = wire
           /\ tasks' = tasks
           /\ packet_sequence_number' = packet_sequence_number
           /\ assigned' = assigned
           /\ ack_queue' = ack_queue
           /\ session' = session]_vars

\* every Packet the callers sent was handled without a session: the queue
\* is empty, no number was given and nothing was sent or registered
C36_Witness ==
    /\ alive
    /\ ~session.present
    /\ pktIssued = MaxSeq
    /\ inbox = <<>>
    /\ packet_sequence_number = 0
    /\ wire = {}
    /\ ack_queue = {}
    /\ \A n \in SeqIds : tasks[n] = NoTask

\* C37: every reliable send comes to its end, with success or with the
\* error, having transmitted at least once and at most ACK_ATTEMPTS times.
C37_ReliableSendTerminates ==
    \A n \in SeqIds :
        Reliable(n) ~>
            (/\ tasks[n].pc = "done"
             /\ tasks[n].result \in {"Ok", "Err"}
             /\ tasks[n].txCount \in 1..ACK_ATTEMPTS)

\* C38: an attempt of a reliable send whose transmission fails is an attempt
\* like any other.  The step in which send_to returns the error leaves the
\* send waiting in select! with its entry registered, its signal pending and
\* the full timeout ahead; failed and successful transmissions together
\* make up the attempts, never more than ACK_ATTEMPTS; and with no
\* acknowledgment the send ends only when all ACK_ATTEMPTS were made.
C38_TransmitErrorKeepsCycle ==
    /\ [](\A n \in SeqIds :
            Reliable(n) =>
               /\ tasks[n].txCount + tasks[n].sendErrs <= ACK_ATTEMPTS
               /\ tasks[n].pc = "select" =>
                     /\ tasks[n].txCount + tasks[n].sendErrs
                            = tasks[n].attempts + 1
                     /\ n \in ack_queue
               /\ tasks[n].pc = "done" =>
                     /\ tasks[n].attempts = ACK_ATTEMPTS
                     /\ tasks[n].txCount + tasks[n].sendErrs = ACK_ATTEMPTS
                     /\ tasks[n].result = "Err")
    /\ [][\A n \in SeqIds :
            tasks'[n].sendErrs # tasks[n].sendErrs =>
               /\ tasks'[n].sendErrs = tasks[n].sendErrs + 1
               /\ tasks'[n].pc = "select"
               /\ tasks'[n].rx = "pending"
               /\ tasks'[n].left = ACK_TIMEOUT
               /\ tasks'[n].attempts = tasks[n].attempts
               /\ n \in ack_queue'
               /\ wire' = wire]_vars

\* the first transmission of a reliable send failed and its two
\* retransmissions went out: the send has made its three attempts and only
\* resent datagrams of it are on the wire
C38_Witness ==
    \E n \in SeqIds :
        /\ Reliable(n)
        /\ tasks[n].pc = "done"
        /\ tasks[n].sendErrs = 1
        /\ tasks[n].txCount = 2
        /\ \A d \in wire : d.slot = n => d.resent

\* C39: an Agent message is sent in a step exactly when that step brings
\* the number of the agent's outfit items to outfit_size; one step sends at
\* most one, and no more than one is ever sent for the agent.
C39_RenderOnceWhenOutfitComplete ==
    /\ [](renders <= 1)
    /\ [][/\ renders' \in {renders, renders + 1}
          /\ (renders' = renders + 1) <=>
                /\ Len(agent_list'.outfit_items)
                      # Len(agent_list.outfit_items)
                /\ Len(agent_list'.outfit_items) = agent_list.outfit_size
          /\ (renders' = renders + 1) =>
                /\ Len(inbox') > 0
                /\ inbox'[Len(inbox')].type = "Agent"
                /\ inbox'[Len(inbox')].items = agent_list'.outfit_items]_vars

\* three downloads added their items to an outfit of two: the render was
\* triggered once, by the second item, and not again by the third
C39_Witness ==
    /\ agent_list.present
    /\ agent_list.outfit_size = 2
    /\ Len(agent_list.outfit_items) = 3
    /\ renders = 1
    /\ \A k \in DlIds : downloads[k].pc = "done"

====
